---- MODULE Spec2Model ----
(***************************************************************************)
(* Kubernetes manifest validators: validate-k8s.py (baseline) and          *)
(* validate-k8s-advanced.py (advanced).  A run of either main() is a state *)
(* machine over the manifest directory; the per-file and per-kind          *)
(* validators are pure operators over parsed YAML values.                  *)
(* Installation verifier: verify_install.py.  A run of run_all_checks() is *)
(* a state machine over the results its checks record.                     *)
(***************************************************************************)
EXTENDS Integers, Sequences, FiniteSets, TLC

VARIABLES
    validator,     \* which script runs: "baseline" | "advanced" | "none"
    dir_exists,    \* Path('k8s').exists()
    dir,           \* file name -> content, the *.yaml files of k8s/
    yaml_files,    \* the list main() got from glob, in the listing's order
    pc,            \* position of main(): "start" | "loop" | "labels" | "summary" | "exit"
    todo,          \* the part of sorted(yaml_files) the loop has not visited yet
    all_errors,    \* main(): all_errors
    all_warnings,  \* main(): all_warnings
    out,           \* lines printed to standard output
    exit_code,     \* argument of sys.exit, -1 while running
    returned,      \* what each validate_* call of the loop returned: <<name, errors, warnings>>
    call,          \* a single validator call under test: [fn, doc, file]
    ret,           \* the result of that call
    verifier       \* verify_install.py: the InstallationVerifier of main()

vars == <<validator, dir_exists, dir, yaml_files, pc, todo, all_errors,
          all_warnings, out, exit_code, returned, call, ret, verifier>>

---------------------------------------------------------------------------
(* Parsed YAML values, tagged by their Python type.  A dict keeps its      *)
(* insertion order: a sequence of <<key, value>> pairs with distinct keys. *)

None == [t |-> "none"]
Str(s) == [t |-> "str", v |-> s]
Num(n) == [t |-> "int", v |-> n]
Bool(b) == [t |-> "bool", v |-> b]
Dict(pairs) == [t |-> "dict", v |-> pairs]
List(items) == [t |-> "list", v |-> items]
EmptyDict == Dict(<<>>)
EmptyList == List(<<>>)

Range(s) == {s[i] : i \in DOMAIN s}

IsDict(x) == x.t = "dict"

Keys(d) == {d.v[i][1] : i \in DOMAIN d.v}

\* d[k] of a dict that has the key
Lookup(d, k) == d.v[CHOOSE i \in DOMAIN d.v : d.v[i][1] = k][2]

\* d.get(k, default) of a dict
Get(d, k, default) == IF k \in Keys(d) THEN Lookup(d, k) ELSE default

\* bool(x)
Truthy(x) ==
    CASE x.t = "none" -> FALSE
      [] x.t = "str"  -> x.v # ""
      [] x.t = "int"  -> x.v # 0
      [] x.t = "bool" -> x.v
      [] x.t = "dict" -> x.v # <<>>
      [] x.t = "list" -> x.v # <<>>

\* Python's numbers: a bool is an int (True == 1)
IsNumber(x) == x.t \in {"int", "bool"}
NumberOf(x) == IF x.t = "bool" THEN (IF x.v THEN 1 ELSE 0) ELSE x.v

\* a == b of two values
PyEq(a, b) ==
    IF IsNumber(a) /\ IsNumber(b) THEN NumberOf(a) = NumberOf(b)
    ELSE a.t = b.t /\ a = b

\* type(x).__name__
TypeName(x) ==
    CASE x.t = "none" -> "NoneType"
      [] x.t = "str"  -> "str"
      [] x.t = "int"  -> "int"
      [] x.t = "bool" -> "bool"
      [] x.t = "dict" -> "dict"
      [] x.t = "list" -> "list"

\* needle in hay, of two Python strings
StrIn(needle, hay) ==
    \E i \in 1..(Len(hay) - Len(needle) + 1) :
        SubSeq(hay, i, i + Len(needle) - 1) = needle

RECURSIVE Join(_, _)
\* sep.join(strs)
Join(strs, sep) ==
    IF strs = <<>> THEN ""
    ELSE IF Len(strs) = 1 THEN strs[1]
    ELSE strs[1] \o sep \o Join(Tail(strs), sep)

RECURSIVE PyRepr(_)
\* repr(x)
PyRepr(x) ==
    CASE x.t = "none" -> "None"
      [] x.t = "str"  -> "'" \o x.v \o "'"
      [] x.t = "int"  -> ToString(x.v)
      [] x.t = "bool" -> IF x.v THEN "True" ELSE "False"
      [] x.t = "list" ->
            "[" \o Join([i \in DOMAIN x.v |-> PyRepr(x.v[i])], ", ") \o "]"
      [] x.t = "dict" ->
            "{" \o Join([i \in DOMAIN x.v |->
                            "'" \o x.v[i][1] \o "': " \o PyRepr(x.v[i][2])], ", ")
                \o "}"

\* str(x), as an f-string formats a value
PyStr(x) == IF x.t = "str" THEN x.v ELSE PyRepr(x)

\* The messages of the exceptions the validators can run into
NoAttr(x, attr) ==
    "'" \o TypeName(x) \o "' object has no attribute '" \o attr \o "'"
NotContainer(x) == "argument of type '" \o TypeName(x) \o "' is not iterable"
NotIterable(x) == "'" \o TypeName(x) \o "' object is not iterable"
NotMapping(x) == "'" \o TypeName(x) \o "' object is not a mapping"
Unhashable(x) == "unhashable type: '" \o TypeName(x) \o "'"
NotOrdered(op, a, b) ==
    "'" \o op \o "' not supported between instances of '" \o TypeName(a)
        \o "' and '" \o TypeName(b) \o "'"

\* Whether `for item in x` runs at all (otherwise TypeError)
CanIterate(x) == x.t \in {"dict", "str", "list"}

\* The items `for item in x` visits, in order
Items(x) ==
    CASE x.t = "list" -> x.v
      [] x.t = "dict" -> [i \in DOMAIN x.v |-> Str(x.v[i][1])]
      [] x.t = "str"  -> [i \in 1..Len(x.v) |-> Str(SubSeq(x.v, i, i))]

\* Whether `key in x` evaluates at all (otherwise TypeError)
CanContain(x) == x.t \in {"dict", "str", "list"}

\* key in x, for a string key and an x that supports `in`
PyIn(key, x) ==
    CASE x.t = "dict" -> key \in Keys(x)
      [] x.t = "str"  -> StrIn(key, x.v)
      [] x.t = "list" -> Str(key) \in Range(x.v)

---------------------------------------------------------------------------
(* The findings of one validator call.  raised/exc: an exception left the  *)
(* code modelled, with this message; errors and warnings are the lists as  *)
(* they stand at that point.                                               *)

NoFindings == [raised |-> FALSE, exc |-> "", errors |-> <<>>, warnings |-> <<>>]
AddError(acc, msg) == [acc EXCEPT !.errors = Append(@, msg)]
AddWarning(acc, msg) == [acc EXCEPT !.warnings = Append(@, msg)]
Throw(acc, msg) == [acc EXCEPT !.raised = TRUE, !.exc = msg]
Raise(msg) == Throw(NoFindings, msg)

\* acc with an error (a warning) added when cond holds
ErrorIf(acc, cond, msg) == IF cond THEN AddError(acc, msg) ELSE acc
WarningIf(acc, cond, msg) == IF cond THEN AddWarning(acc, msg) ELSE acc

\* str(file_path) of a file of Path('k8s')
PathOf(name) == "k8s/" \o name

---------------------------------------------------------------------------
(* validate-k8s.py: validate_yaml_file                                     *)

\* Mutant: `if` in place of `elif`, so that a document without metadata is
\* also reported as lacking metadata.name
BaselineRequired_IfForElif(acc, i, doc, path) ==
    LET where == "Document " \o ToString(i) \o " in " \o path \o ": "
        a1 == ErrorIf(acc, "apiVersion" \notin Keys(doc),
                      where \o "Missing 'apiVersion'")
        a2 == ErrorIf(a1, "kind" \notin Keys(doc), where \o "Missing 'kind'")
        a3 == ErrorIf(a2, "metadata" \notin Keys(doc), where \o "Missing 'metadata'")
        metadata == Get(doc, "metadata", EmptyDict)
    IN  IF ~CanContain(metadata)
        THEN Throw(a3, NotContainer(metadata))
        ELSE ErrorIf(a3, ~PyIn("name", metadata),
                     where \o "Missing 'metadata.name'")

\* lines 35-45: the required Kubernetes fields of document i
BaselineRequired(acc, i, doc, path) ==
    LET where == "Document " \o ToString(i) \o " in " \o path \o ": "
        a1 == ErrorIf(acc, "apiVersion" \notin Keys(doc),
                      where \o "Missing 'apiVersion'")
        a2 == ErrorIf(a1, "kind" \notin Keys(doc), where \o "Missing 'kind'")
        metadata == Get(doc, "metadata", EmptyDict)
    IN  IF "metadata" \notin Keys(doc)
        THEN AddError(a2, where \o "Missing 'metadata'")
        ELSE IF ~CanContain(metadata)
        THEN Throw(a2, NotContainer(metadata))
        ELSE ErrorIf(a2, ~PyIn("name", metadata),
                     where \o "Missing 'metadata.name'")

\* Mutant: the Secret rule tests `not doc.get(...)`, so that an empty mapping
\* counts as absent
BaselineKind_EmptyIsAbsent(acc, doc, path) ==
    LET kind == Get(doc, "kind", Str(""))
        spec == Get(doc, "spec", EmptyDict)
    IN  IF acc.raised THEN acc
        ELSE IF PyEq(kind, Str("Deployment")) THEN
            IF ~CanContain(spec) THEN Throw(acc, NotContainer(spec))
            ELSE ErrorIf(ErrorIf(acc, ~PyIn("selector", spec),
                                 path \o ": Deployment missing 'spec.selector'"),
                         ~PyIn("template", spec),
                         path \o ": Deployment missing 'spec.template'")
        ELSE IF PyEq(kind, Str("Service")) THEN
            IF ~CanContain(spec) THEN Throw(acc, NotContainer(spec))
            ELSE ErrorIf(WarningIf(acc, ~PyIn("selector", spec),
                                   path \o ": Service missing 'spec.selector' (headless?)"),
                         ~PyIn("ports", spec),
                         path \o ": Service missing 'spec.ports'")
        ELSE IF PyEq(kind, Str("Secret")) THEN
            ErrorIf(acc, ~Truthy(Get(doc, "data", None))
                         /\ ~Truthy(Get(doc, "stringData", None)),
                    path \o ": Secret has no data or stringData")
        ELSE IF PyEq(kind, Str("ConfigMap")) THEN
            WarningIf(acc, Get(doc, "data", None) = None,
                      path \o ": ConfigMap has no data")
        ELSE IF PyEq(kind, Str("Ingress")) THEN
            IF ~CanContain(spec) THEN Throw(acc, NotContainer(spec))
            ELSE ErrorIf(acc, ~PyIn("rules", spec),
                         path \o ": Ingress missing 'spec.rules'")
        ELSE acc

\* lines 47-75: the checks that depend on the kind
BaselineKind(acc, doc, path) ==
    LET kind == Get(doc, "kind", Str(""))
        spec == Get(doc, "spec", EmptyDict)
    IN  IF acc.raised THEN acc
        ELSE IF PyEq(kind, Str("Deployment")) THEN
            IF ~CanContain(spec) THEN Throw(acc, NotContainer(spec))
            ELSE ErrorIf(ErrorIf(acc, ~PyIn("selector", spec),
                                 path \o ": Deployment missing 'spec.selector'"),
                         ~PyIn("template", spec),
                         path \o ": Deployment missing 'spec.template'")
        ELSE IF PyEq(kind, Str("Service")) THEN
            IF ~CanContain(spec) THEN Throw(acc, NotContainer(spec))
            ELSE ErrorIf(WarningIf(acc, ~PyIn("selector", spec),
                                   path \o ": Service missing 'spec.selector' (headless?)"),
                         ~PyIn("ports", spec),
                         path \o ": Service missing 'spec.ports'")
        ELSE IF PyEq(kind, Str("Secret")) THEN
            ErrorIf(acc, Get(doc, "data", None) = None
                         /\ Get(doc, "stringData", None) = None,
                    path \o ": Secret has no data or stringData")
        ELSE IF PyEq(kind, Str("ConfigMap")) THEN
            WarningIf(acc, Get(doc, "data", None) = None,
                      path \o ": ConfigMap has no data")
        ELSE IF PyEq(kind, Str("Ingress")) THEN
            IF ~CanContain(spec) THEN Throw(acc, NotContainer(spec))
            ELSE ErrorIf(acc, ~PyIn("rules", spec),
                         path \o ": Ingress missing 'spec.rules'")
        ELSE acc

\* Mutant: the required fields are checked only for the kinds that have a
\* rule of their own
BaselineDoc_KnownKindsOnly(acc, i, doc, name) ==
    IF doc = None THEN acc
    ELSE IF ~IsDict(doc) THEN Throw(acc, NoAttr(doc, "get"))
    ELSE IF PyEq(Get(doc, "kind", Str("")), Str("Kustomization"))
            \/ name = "kustomization.yaml"
    THEN acc
    ELSE IF Get(doc, "kind", Str("")) \notin
              {Str("Deployment"), Str("Service"), Str("Secret"), Str("ConfigMap"),
               Str("Ingress")}
    THEN acc
    ELSE BaselineKind(BaselineRequired(acc, i, doc, PathOf(name)),
                      doc, PathOf(name))

\* Mutant: only the kind is looked at, not the name of the file
BaselineDoc_KindOnly(acc, i, doc, name) ==
    IF doc = None THEN acc
    ELSE IF ~IsDict(doc) THEN Throw(acc, NoAttr(doc, "get"))
    ELSE IF PyEq(Get(doc, "kind", Str("")), Str("Kustomization"))
    THEN acc
    ELSE BaselineKind(BaselineRequired(acc, i, doc, PathOf(name)),
                      doc, PathOf(name))

\* lines 25-75: one pass of the loop body, for document i (counted from 0)
BaselineDoc(acc, i, doc, name) ==
    IF doc = None THEN acc
    ELSE IF ~IsDict(doc) THEN Throw(acc, NoAttr(doc, "get"))
    ELSE IF PyEq(Get(doc, "kind", Str("")), Str("Kustomization"))
            \/ name = "kustomization.yaml"
    THEN acc
    ELSE BaselineKind(BaselineRequired(acc, i, doc, PathOf(name)),
                      doc, PathOf(name))

RECURSIVE BaselineLoop(_, _, _, _)
\* lines 25-75: the loop over the documents, left at the first exception
BaselineLoop(acc, docs, k, name) ==
    IF acc.raised \/ k > Len(docs) THEN acc
    ELSE BaselineLoop(BaselineDoc(acc, k - 1, docs[k], name), docs, k + 1, name)

\* The content of a file is what open/read/safe_load_all make of it:
\*   [kind |-> "unreadable", msg]  open() or read() raises
\*   [kind |-> "bad_yaml", msg]    safe_load_all raises yaml.YAMLError
\*   [kind |-> "docs", docs]       the parsed documents, None for an empty one
Unreadable(msg) == [kind |-> "unreadable", msg |-> msg, docs |-> <<>>]
BadYaml(msg) == [kind |-> "bad_yaml", msg |-> msg, docs |-> <<>>]
Docs(docs) == [kind |-> "docs", msg |-> "", docs |-> docs]

\* Mutant: the except clause returns its one error in place of the findings
\* collected
FileResult_OnlyTheError(acc, prefix) ==
    IF acc.raised
    THEN << <<prefix \o acc.exc>>, <<>> >>
    ELSE << acc.errors, acc.warnings >>

\* What a file's validation returns, <<errors, warnings>>: the except clause
\* adds one error with the exception's message to the findings collected
FileResult(acc, prefix) ==
    IF acc.raised
    THEN << Append(acc.errors, prefix \o acc.exc), acc.warnings >>
    ELSE << acc.errors, acc.warnings >>

\* validate_yaml_file(file_path): <<errors, warnings>>
validate_yaml_file(name, content) ==
    LET path == PathOf(name) IN
    IF content.kind = "bad_yaml"
    THEN << <<"YAML parsing error in " \o path \o ": " \o content.msg>>, <<>> >>
    ELSE IF content.kind = "unreadable"
    THEN << <<"Error reading " \o path \o ": " \o content.msg>>, <<>> >>
    ELSE IF content.docs = <<>>
    THEN << <<"No documents found in " \o path>>, <<>> >>
    ELSE FileResult(BaselineLoop(NoFindings, content.docs, 1, name),
                    "Error reading " \o path \o ": ")

---------------------------------------------------------------------------
(* validate-k8s-advanced.py: the kind validators.  Each builds its own     *)
(* errors and warnings lists and returns them; an exception leaves the     *)
(* function without them.                                                  *)

\* lines 35-57: the loop body of validate_deployment, for one container
DeploymentContainer(acc, container, file) ==
    IF ~IsDict(container) THEN Throw(acc, NoAttr(container, "get")) ELSE
    LET name == PyStr(Get(container, "name", Str("unnamed")))
        image == Get(container, "image", Str(""))
        resources == Get(container, "resources", EmptyDict)
        security_context == Get(container, "securityContext", EmptyDict)
        who == file \o ": Container '" \o name \o "' "
    IN  IF ~CanContain(image) THEN Throw(acc, NotContainer(image))
        ELSE IF ~IsDict(resources) THEN Throw(acc, NoAttr(resources, "get"))
        ELSE IF ~IsDict(security_context)
        THEN Throw(acc, NoAttr(security_context, "get"))
        ELSE
        LET a1 == WarningIf(acc, PyIn(":latest", image) \/ ~PyIn(":", image),
                            who \o "uses 'latest' tag or no tag")
            a2 == WarningIf(a1, ~Truthy(Get(resources, "limits", None)),
                            who \o "has no resource limits")
            a3 == WarningIf(a2, ~Truthy(Get(resources, "requests", None)),
                            who \o "has no resource requests")
            a4 == ErrorIf(a3, Truthy(Get(security_context, "privileged", None)),
                          who \o "runs as privileged")
            a5 == WarningIf(a4, ~Truthy(Get(security_context, "runAsNonRoot", None)),
                            who \o "doesn't explicitly set runAsNonRoot")
        IN  WarningIf(a5,
                      ~Truthy(Get(security_context, "readOnlyRootFilesystem", None)),
                      who \o "doesn't use readOnlyRootFilesystem")

RECURSIVE DeploymentContainers(_, _, _, _)
\* lines 35-57: the loop over the containers, from the k-th on
DeploymentContainers(acc, containers, k, file) ==
    IF acc.raised \/ k > Len(containers) THEN acc
    ELSE DeploymentContainers(DeploymentContainer(acc, containers[k], file),
                              containers, k + 1, file)

RECURSIVE SelectorErrors_NamesTemplate(_, _, _, _, _)
\* Mutant: the message gives the template's value in place of the selector's
SelectorErrors_NamesTemplate(acc, pairs, k, template_labels, file) ==
    IF k > Len(pairs) THEN acc
    ELSE SelectorErrors_NamesTemplate(
            ErrorIf(acc, ~PyEq(Get(template_labels, pairs[k][1], None), pairs[k][2]),
                    file \o ": Selector label " \o pairs[k][1] \o "="
                         \o PyStr(Get(template_labels, pairs[k][1], None))
                         \o " doesn't match template label"),
            pairs, k + 1, template_labels, file)

RECURSIVE SelectorErrors(_, _, _, _, _)
\* lines 29-31: the loop over selector.items(), from the k-th pair on
SelectorErrors(acc, pairs, k, template_labels, file) ==
    IF k > Len(pairs) THEN acc
    ELSE SelectorErrors(
            ErrorIf(acc, ~PyEq(Get(template_labels, pairs[k][1], None), pairs[k][2]),
                    file \o ": Selector label " \o pairs[k][1] \o "="
                         \o PyStr(pairs[k][2]) \o " doesn't match template label"),
            pairs, k + 1, template_labels, file)

\* lines 25-31: the selector of a Deployment against its template's labels
DeploymentSelector(acc, selector, template_labels, file) ==
    IF Truthy(selector) /\ Truthy(template_labels)
    THEN IF ~IsDict(selector) THEN Throw(acc, NoAttr(selector, "items"))
         ELSE IF ~IsDict(template_labels)
         THEN Throw(acc, NoAttr(template_labels, "get"))
         ELSE SelectorErrors(acc, selector.v, 1, template_labels, file)
    ELSE acc

\* validate_deployment(doc, file_path)
validate_deployment(doc, file) ==
    LET spec == Get(doc, "spec", EmptyDict) IN
    IF ~IsDict(spec) THEN Raise(NoAttr(spec, "get")) ELSE
    LET template == Get(spec, "template", EmptyDict) IN
    IF ~IsDict(template) THEN Raise(NoAttr(template, "get")) ELSE
    LET pod_spec == Get(template, "spec", EmptyDict)
        metadata == Get(template, "metadata", EmptyDict)
    IN
    IF ~IsDict(metadata) THEN Raise(NoAttr(metadata, "get")) ELSE
    LET a1 == WarningIf(NoFindings, ~Truthy(Get(metadata, "labels", None)),
                        file \o ": Deployment template should have labels")
        sel == Get(spec, "selector", EmptyDict)
    IN
    IF ~IsDict(sel) THEN Raise(NoAttr(sel, "get")) ELSE
    LET selector == Get(sel, "matchLabels", EmptyDict)
        template_labels == Get(metadata, "labels", EmptyDict)
        a2 == DeploymentSelector(a1, selector, template_labels, file)
    IN
    IF a2.raised THEN Raise(a2.exc)
    ELSE IF ~IsDict(pod_spec) THEN Raise(NoAttr(pod_spec, "get")) ELSE
    LET containers == Get(pod_spec, "containers", EmptyList) IN
    IF ~CanIterate(containers) THEN Raise(NotIterable(containers)) ELSE
    LET a3 == DeploymentContainers(a2, Items(containers), 1, file) IN
    IF a3.raised THEN Raise(a3.exc) ELSE a3

\* Whether a value can be a member of a set (otherwise TypeError)
Hashable(x) == x.t \notin {"dict", "list"}

RECURSIVE ServicePorts_PreviousOnly(_, _, _, _, _)
\* Mutant: port_names is overwritten with the last name seen, so that a name
\* is compared with the one before it only
ServicePorts_PreviousOnly(acc, ports, k, port_names, file) ==
    IF acc.raised \/ k > Len(ports) THEN acc
    ELSE LET port == ports[k] IN
         IF ~IsDict(port)
         THEN Throw(acc, NoAttr(port, "get"))
         ELSE LET port_name == Get(port, "name", None) IN
              IF ~Truthy(port_name)
              THEN ServicePorts_PreviousOnly(acc, ports, k + 1, port_names, file)
              ELSE IF ~Hashable(port_name)
              THEN Throw(acc, Unhashable(port_name))
              ELSE ServicePorts_PreviousOnly(
                      ErrorIf(acc, \E n \in port_names : PyEq(n, port_name),
                              file \o ": Duplicate port name '" \o PyStr(port_name) \o "'"),
                      ports, k + 1, {port_name}, file)

RECURSIVE ServicePorts(_, _, _, _, _)
\* lines 76-81: the loop over the ports, from the k-th on; port_names is the
\* set of names seen so far
ServicePorts(acc, ports, k, port_names, file) ==
    IF acc.raised \/ k > Len(ports) THEN acc
    ELSE LET port == ports[k] IN
         IF ~IsDict(port)
         THEN Throw(acc, NoAttr(port, "get"))
         ELSE LET port_name == Get(port, "name", None) IN
              IF ~Truthy(port_name)
              THEN ServicePorts(acc, ports, k + 1, port_names, file)
              ELSE IF ~Hashable(port_name)
              THEN Throw(acc, Unhashable(port_name))
              ELSE ServicePorts(
                      ErrorIf(acc, \E n \in port_names : PyEq(n, port_name),
                              file \o ": Duplicate port name '" \o PyStr(port_name) \o "'"),
                      ports, k + 1, port_names \cup {port_name}, file)

\* validate_service(doc, file_path)
validate_service(doc, file) ==
    LET spec == Get(doc, "spec", EmptyDict) IN
    IF ~IsDict(spec) THEN Raise(NoAttr(spec, "get")) ELSE
    LET selector == Get(spec, "selector", EmptyDict)
        a1 == WarningIf(NoFindings,
                        ~PyEq(Get(spec, "clusterIP", None), Str("None"))
                            /\ ~Truthy(selector),
                        file \o ": Service has no selector")
        ports == Get(spec, "ports", EmptyList)
    IN
    IF ~CanIterate(ports) THEN Raise(NotIterable(ports)) ELSE
    LET a2 == ServicePorts(a1, Items(ports), 1, {}, file) IN
    IF a2.raised THEN Raise(a2.exc) ELSE a2

RECURSIVE IngressRules(_, _, _, _)
\* lines 98-103: the loop over the rules, from the k-th on
IngressRules(acc, rules, k, file) ==
    IF acc.raised \/ k > Len(rules) THEN acc
    ELSE LET rule == rules[k] IN
         IF ~IsDict(rule) THEN Throw(acc, NoAttr(rule, "get")) ELSE
         LET host == Get(rule, "host", None) IN
         IF ~Truthy(host)
         THEN IngressRules(AddWarning(acc, file \o ": Ingress rule has no host"),
                           rules, k + 1, file)
         ELSE IF ~CanContain(host) THEN Throw(acc, NotContainer(host))
         ELSE IngressRules(
                 WarningIf(acc, PyIn("example.com", host),
                           file \o ": Ingress uses example.com (placeholder?)"),
                 rules, k + 1, file)

\* validate_ingress(doc, file_path)
validate_ingress(doc, file) ==
    LET spec == Get(doc, "spec", EmptyDict) IN
    IF ~IsDict(spec) THEN Raise(NoAttr(spec, "get")) ELSE
    LET a1 == WarningIf(NoFindings, ~Truthy(Get(spec, "tls", None)),
                        file \o ": Ingress doesn't configure TLS")
        rules == Get(spec, "rules", EmptyList)
    IN
    IF ~CanIterate(rules) THEN Raise(NotIterable(rules)) ELSE
    LET a2 == IngressRules(a1, Items(rules), 1, file) IN
    IF a2.raised THEN Raise(a2.exc) ELSE a2

\* Mutant: {**b, **a}, so that the value of data wins for a key in both
MergeDicts_DataWins(a, b) ==
    Dict(a.v \o SelectSeq(b.v, LAMBDA p : p[1] \notin Keys(a)))

\* {**a, **b} of two dicts: a's pairs with b's values where b has the key,
\* then b's pairs for the keys a lacks
MergeDicts(a, b) ==
    Dict([i \in DOMAIN a.v |-> <<a.v[i][1], Get(b, a.v[i][1], a.v[i][2])>>]
         \o SelectSeq(b.v, LAMBDA p : p[1] \notin Keys(a)))

RECURSIVE SecretPlaceholders(_, _, _, _)
\* lines 117-119: the loop over all_data.items(), from the k-th pair on
SecretPlaceholders(acc, pairs, k, file) ==
    IF k > Len(pairs) THEN acc
    ELSE SecretPlaceholders(
            WarningIf(acc, Truthy(pairs[k][2])
                           /\ StrIn("CHANGE_ME", PyStr(pairs[k][2])),
                      file \o ": Secret '" \o pairs[k][1]
                           \o "' contains CHANGE_ME placeholder"),
            pairs, k + 1, file)

\* validate_secret(doc, file_path)
validate_secret(doc, file) ==
    LET data == Get(doc, "data", EmptyDict)
        string_data == Get(doc, "stringData", EmptyDict)
    IN  IF ~IsDict(data) THEN Raise(NotMapping(data))
        ELSE IF ~IsDict(string_data) THEN Raise(NotMapping(string_data))
        ELSE SecretPlaceholders(NoFindings, MergeDicts(data, string_data).v, 1, file)

\* Mutant: > in place of >=
validate_hpa_Strict(doc, file) ==
    LET spec == Get(doc, "spec", EmptyDict) IN
    IF ~IsDict(spec) THEN Raise(NoAttr(spec, "get")) ELSE
    LET min_replicas == Get(spec, "minReplicas", Num(1))
        max_replicas == Get(spec, "maxReplicas", Num(1))
    IN
    IF ~(IsNumber(min_replicas) /\ IsNumber(max_replicas))
    THEN IF min_replicas.t = "str" /\ max_replicas.t = "str"
         THEN Raise(NotOrdered("<", min_replicas, Num(2)))
         ELSE Raise(NotOrdered(">=", min_replicas, max_replicas))
    ELSE
    LET a1 == ErrorIf(NoFindings, NumberOf(min_replicas) > NumberOf(max_replicas),
                      file \o ": minReplicas (" \o PyStr(min_replicas)
                           \o ") >= maxReplicas (" \o PyStr(max_replicas) \o ")")
    IN  WarningIf(a1, NumberOf(min_replicas) < 2,
                  file \o ": minReplicas is " \o PyStr(min_replicas)
                       \o " (consider >= 2 for HA)")

\* validate_hpa(doc, file_path)
validate_hpa(doc, file) ==
    LET spec == Get(doc, "spec", EmptyDict) IN
    IF ~IsDict(spec) THEN Raise(NoAttr(spec, "get")) ELSE
    LET min_replicas == Get(spec, "minReplicas", Num(1))
        max_replicas == Get(spec, "maxReplicas", Num(1))
    IN
    IF ~(IsNumber(min_replicas) /\ IsNumber(max_replicas))
    THEN IF min_replicas.t = "str" /\ max_replicas.t = "str"
         THEN Raise(NotOrdered("<", min_replicas, Num(2)))
         ELSE Raise(NotOrdered(">=", min_replicas, max_replicas))
    ELSE
    LET a1 == ErrorIf(NoFindings, NumberOf(min_replicas) >= NumberOf(max_replicas),
                      file \o ": minReplicas (" \o PyStr(min_replicas)
                           \o ") >= maxReplicas (" \o PyStr(max_replicas) \o ")")
    IN  WarningIf(a1, NumberOf(min_replicas) < 2,
                  file \o ": minReplicas is " \o PyStr(min_replicas)
                       \o " (consider >= 2 for HA)")

\* validate_network_policy(doc, file_path)
validate_network_policy(doc, file) ==
    LET spec == Get(doc, "spec", EmptyDict) IN
    IF ~IsDict(spec) THEN Raise(NoAttr(spec, "get")) ELSE
    LET policy_types == Get(spec, "policyTypes", EmptyList) IN
    IF ~CanContain(policy_types) THEN Raise(NotContainer(policy_types))
    ELSE WarningIf(NoFindings,
                   ~PyIn("Ingress", policy_types) /\ ~PyIn("Egress", policy_types),
                   file \o ": NetworkPolicy has no policyTypes")

\* Mutant: the last branch is an `else`, so that every other kind is
\* validated as a NetworkPolicy
Dispatch_ElseForElif(doc, file) ==
    LET kind == Get(doc, "kind", Str("")) IN
    IF PyEq(kind, Str("Deployment")) \/ PyEq(kind, Str("StatefulSet"))
    THEN validate_deployment(doc, file)
    ELSE IF PyEq(kind, Str("Service")) THEN validate_service(doc, file)
    ELSE IF PyEq(kind, Str("Ingress")) THEN validate_ingress(doc, file)
    ELSE IF PyEq(kind, Str("Secret")) THEN validate_secret(doc, file)
    ELSE IF PyEq(kind, Str("HorizontalPodAutoscaler")) THEN validate_hpa(doc, file)
    ELSE validate_network_policy(doc, file)

\* lines 168-198: the kind's validator, or no findings for another kind
Dispatch(doc, file) ==
    LET kind == Get(doc, "kind", Str("")) IN
    IF PyEq(kind, Str("Deployment")) \/ PyEq(kind, Str("StatefulSet"))
    THEN validate_deployment(doc, file)
    ELSE IF PyEq(kind, Str("Service")) THEN validate_service(doc, file)
    ELSE IF PyEq(kind, Str("Ingress")) THEN validate_ingress(doc, file)
    ELSE IF PyEq(kind, Str("Secret")) THEN validate_secret(doc, file)
    ELSE IF PyEq(kind, Str("HorizontalPodAutoscaler")) THEN validate_hpa(doc, file)
    ELSE IF PyEq(kind, Str("NetworkPolicy")) THEN validate_network_policy(doc, file)
    ELSE NoFindings

\* errors.extend(e); warnings.extend(w), or the exception of the call
Extend(acc, r) ==
    IF r.raised THEN Throw(acc, r.exc)
    ELSE [acc EXCEPT !.errors = @ \o r.errors, !.warnings = @ \o r.warnings]

\* Mutant: an empty document is not passed over, and doc.get raises on it
AdvancedDoc_NoSkip(acc, doc, name) ==
    IF ~IsDict(doc) THEN Throw(acc, NoAttr(doc, "get"))
    ELSE Extend(acc, Dispatch(doc, name))

\* lines 164-198: one pass of the loop body of validate_advanced
AdvancedDoc(acc, doc, name) ==
    IF doc = None THEN acc
    ELSE IF ~IsDict(doc) THEN Throw(acc, NoAttr(doc, "get"))
    ELSE Extend(acc, Dispatch(doc, name))

RECURSIVE AdvancedLoop(_, _, _, _)
\* lines 164-198: the loop over the documents, left at the first exception
AdvancedLoop(acc, docs, k, name) ==
    IF acc.raised \/ k > Len(docs) THEN acc
    ELSE AdvancedLoop(AdvancedDoc(acc, docs[k], name), docs, k + 1, name)

\* Mutant: a file that cannot be read or parsed is passed over in silence
validate_advanced_SilentParse(name, content) ==
    IF content.kind # "docs"
    THEN << <<>>, <<>> >>
    ELSE FileResult(AdvancedLoop(NoFindings, content.docs, 1, name),
                    "Error validating " \o PathOf(name) \o ": ")

\* Mutant: errors and warnings are the lists of the run, shared by the calls,
\* in place of fresh ones
validate_advanced_SharedLists(name, content) ==
    IF content.kind # "docs"
    THEN << Append(all_errors, "Error validating " \o PathOf(name) \o ": " \o content.msg),
            all_warnings >>
    ELSE FileResult(AdvancedLoop([NoFindings EXCEPT !.errors = all_errors,
                                                    !.warnings = all_warnings],
                                 content.docs, 1, name),
                    "Error validating " \o PathOf(name) \o ": ")

\* validate_advanced(file_path): <<errors, warnings>>
validate_advanced(name, content) ==
    IF content.kind # "docs"
    THEN << <<"Error validating " \o PathOf(name) \o ": " \o content.msg>>, <<>> >>
    ELSE FileResult(AdvancedLoop(NoFindings, content.docs, 1, name),
                    "Error validating " \o PathOf(name) \o ": ")

---------------------------------------------------------------------------
(* validate-k8s-advanced.py: check_label_consistency                       *)

\* A value as a set holds it: True and 1 are one element
AsMember(x) == IF x.t = "bool" THEN Num(NumberOf(x)) ELSE x

RECURSIVE FileAppLabels(_, _, _)
\* lines 221-230: the app labels added for one file's documents, from the
\* k-th on; an exception ends the file and keeps what was added
FileAppLabels(apps, docs, k) ==
    IF k > Len(docs) THEN apps
    ELSE LET doc == docs[k] IN
         IF doc = None THEN FileAppLabels(apps, docs, k + 1)
         ELSE IF ~IsDict(doc) THEN apps
         ELSE LET metadata == Get(doc, "metadata", EmptyDict) IN
              IF ~IsDict(metadata) THEN apps
              ELSE LET labels == Get(metadata, "labels", EmptyDict) IN
                   IF ~IsDict(labels) THEN apps
                   ELSE LET app_label == Get(labels, "app", None) IN
                        IF ~Truthy(app_label) THEN FileAppLabels(apps, docs, k + 1)
                        ELSE IF ~Hashable(app_label) THEN apps
                        ELSE FileAppLabels(apps \cup {AsMember(app_label)},
                                           docs, k + 1)

\* line 230: app_labels[yaml_file.name].add(...) for the labels of one file;
\* a file without labels gets no entry
AddLabels(app_labels, name, apps) ==
    IF apps = {} THEN app_labels
    ELSE [n \in DOMAIN app_labels \cup {name} |->
            IF n = name
            THEN (IF n \in DOMAIN app_labels THEN app_labels[n] ELSE {}) \cup apps
            ELSE app_labels[n]]

RECURSIVE ScanLabels_StopAtBadFile(_, _, _, _)
\* Mutant: the try is around the whole loop, so that the scan ends at the
\* first file that cannot be read or parsed
ScanLabels_StopAtBadFile(app_labels, files, listing, k) ==
    IF k > Len(listing) THEN app_labels
    ELSE IF listing[k] = "kustomization.yaml"
    THEN ScanLabels_StopAtBadFile(app_labels, files, listing, k + 1)
    ELSE IF files[listing[k]].kind # "docs"
    THEN app_labels
    ELSE ScanLabels_StopAtBadFile(
            AddLabels(app_labels, listing[k],
                      FileAppLabels({}, files[listing[k]].docs, 1)),
            files, listing, k + 1)

RECURSIVE ScanLabels(_, _, _, _)
\* lines 213-233: the loop over the files in the order glob yields them, from
\* the k-th on
ScanLabels(app_labels, files, listing, k) ==
    IF k > Len(listing) THEN app_labels
    ELSE IF listing[k] = "kustomization.yaml" \/ files[listing[k]].kind # "docs"
    THEN ScanLabels(app_labels, files, listing, k + 1)
    ELSE ScanLabels(AddLabels(app_labels, listing[k],
                              FileAppLabels({}, files[listing[k]].docs, 1)),
                    files, listing, k + 1)

\* lines 211-233: app_labels, file name -> the set of its app labels
LabelIndex(files, listing) == ScanLabels(<<>>, files, listing, 1)

\* line 240: the number of different app labels above which a warning is given
LabelThreshold == 5

\* lines 236-238: all_apps, the union of the files' sets
AllApps(app_labels) == UNION {app_labels[n] : n \in DOMAIN app_labels}

\* Mutant: >= in place of >
LabelFindings_AtThreshold(all_apps) ==
    << <<>>,
       IF Cardinality(all_apps) >= LabelThreshold
       THEN <<"Found " \o ToString(Cardinality(all_apps))
                \o " different 'app' labels. Consider standardization.">>
       ELSE <<>> >>

\* lines 207-208 and 240-243: the errors and warnings returned
LabelFindings(all_apps) ==
    << <<>>,
       IF Cardinality(all_apps) > LabelThreshold
       THEN <<"Found " \o ToString(Cardinality(all_apps))
                \o " different 'app' labels. Consider standardization.">>
       ELSE <<>> >>

\* check_label_consistency(): <<errors, warnings>>, for the files of the
\* directory and the order glob yields them in
check_label_consistency(files, listing) ==
    LabelFindings(AllApps(LabelIndex(files, listing)))

---------------------------------------------------------------------------
(* sorted(yaml_files): paths of one directory order by their names, and    *)
(* names order by the code points of their characters.                     *)

\* The characters of file names, in code point order
CodePoints == "-.0123456789ABCDEFGHIJKLMNOPQRSTUVWXYZ_abcdefghijklmnopqrstuvwxyz"

Ord(c) == CHOOSE i \in 1..Len(CodePoints) : SubSeq(CodePoints, i, i) = c

RECURSIVE StrLess_Descending(_, _)
\* Mutant: the comparison the other way round, as of sorted(reverse=True)
StrLess_Descending(a, b) ==
    IF a = "" THEN FALSE
    ELSE IF b = "" THEN TRUE
    ELSE LET x == Ord(SubSeq(a, 1, 1))
             y == Ord(SubSeq(b, 1, 1))
         IN  IF x # y THEN x > y
             ELSE StrLess_Descending(SubSeq(a, 2, Len(a)), SubSeq(b, 2, Len(b)))

RECURSIVE StrLess(_, _)
\* a < b of two Python strings
StrLess(a, b) ==
    IF b = "" THEN FALSE
    ELSE IF a = "" THEN TRUE
    ELSE LET x == Ord(SubSeq(a, 1, 1))
             y == Ord(SubSeq(b, 1, 1))
         IN  IF x # y THEN x < y
             ELSE StrLess(SubSeq(a, 2, Len(a)), SubSeq(b, 2, Len(b)))

\* Mutant: the loop goes over yaml_files as listed
Sorted_AsListed(names) == names

RECURSIVE Sorted(_)
\* sorted(names), of distinct names
Sorted(names) ==
    IF names = <<>> THEN <<>>
    ELSE LET least == CHOOSE x \in Range(names) :
                          \A y \in Range(names) : x = y \/ StrLess(x, y)
         IN  <<least>> \o Sorted(SelectSeq(names, LAMBDA n : n # least))

\* The orders in which a directory listing can return the names of S
Listings(S) ==
    {l \in [1..Cardinality(S) -> S] : \A i, j \in DOMAIN l : i # j => l[i] # l[j]}

---------------------------------------------------------------------------
(* The report.  The emoji of the scripts are written as ASCII marks.       *)

MarkFail == "[x]"
MarkWarn == "[!]"
MarkPass == "[v]"
Rule == "============================================================"

\* Mutant: only the first Error of a file is listed
FileBlock_FirstErrorOnly(name, errors, warnings) ==
    IF errors # <<>>
    THEN <<MarkFail \o " " \o name \o ":", "   ERROR: " \o errors[1]>>
    ELSE IF warnings # <<>>
    THEN <<MarkWarn \o "  " \o name \o ":">>
         \o [i \in DOMAIN warnings |-> "   WARNING: " \o warnings[i]]
    ELSE <<MarkPass \o " " \o name>>

\* lines 105-116 of validate-k8s.py, 257-268 of validate-k8s-advanced.py:
\* the block printed for one file
FileBlock(name, errors, warnings) ==
    IF errors # <<>>
    THEN <<MarkFail \o " " \o name \o ":">>
         \o [i \in DOMAIN errors |-> "   ERROR: " \o errors[i]]
    ELSE IF warnings # <<>>
    THEN <<MarkWarn \o "  " \o name \o ":">>
         \o [i \in DOMAIN warnings |-> "   WARNING: " \o warnings[i]]
    ELSE <<MarkPass \o " " \o name>>

\* Mutant: the branches of the loop's if/elif the other way round, so that a
\* file with warnings never adds its errors
CountedErrors_WarningsFirst(errors, warnings) ==
    IF warnings # <<>> THEN <<>> ELSE errors

\* Mutant: the warnings of a file are escalated to errors in the run's list
CountedErrors_Escalated(errors, warnings) == errors \o warnings

\* lines 109 and 114 (261 and 266): what the loop adds to all_errors
CountedErrors(errors, warnings) == errors

\* what the loop adds to all_warnings: a file's warnings when it has no error
CountedWarnings(errors, warnings) == IF errors # <<>> THEN <<>> ELSE warnings

\* lines 118-122 (284-288): the summary block
SummaryBlock(n_files, errors, warnings) ==
    << "", Rule, "Summary:",
       "  Files checked: " \o ToString(n_files),
       "  Errors: " \o ToString(Len(errors)),
       "  Warnings: " \o ToString(Len(warnings)) >>

\* lines 124-132 (290-299): the exit code
ExitCode(errors, warnings) == IF errors # <<>> THEN 1 ELSE 0

---------------------------------------------------------------------------
(* verify_install.py: InstallationVerifier.  Colour codes are left out of  *)
(* the printed lines, and the icons are written in ASCII.                  *)

\* lines 34-38: CheckStatus
Statuses == {"PASS", "WARN", "FAIL", "SKIP"}

\* lines 40-46: CheckResult; details and fix_command are "" for None
CheckResult(name, status, message, details, fix_command) ==
    [name |-> name, status |-> status, message |-> message,
     details |-> details, fix_command |-> fix_command]

\* lines 49-55: __init__
InstallationVerifier(verbose) ==
    [verbose |-> verbose, results |-> <<>>, critical_failures |-> 0, warnings |-> 0]

\* The verifier of a run of the manifest validators, which have none
NoVerifier == InstallationVerifier(FALSE)

\* lines 73-78: the icon of a status
Icon(status) ==
    CASE status = "PASS" -> MarkPass
      [] status = "WARN" -> MarkWarn
      [] status = "FAIL" -> MarkFail
      [] status = "SKIP" -> "[>]"

\* lines 80-86: what add_result prints
ResultLines(self, result) ==
    <<Icon(result.status) \o " " \o result.name \o ": " \o result.message>>
    \o (IF result.details # "" /\ self.verbose THEN <<"  " \o result.details>> ELSE <<>>)
    \o (IF result.fix_command # "" THEN <<"  Fix: " \o result.fix_command>> ELSE <<>>)

\* Mutant: a WARN result is counted as a critical failure too
add_result_WarnIsCritical(self, result) ==
    [self EXCEPT !.results = Append(@, result),
                 !.critical_failures =
                     IF result.status \in {"FAIL", "WARN"} THEN @ + 1 ELSE @,
                 !.warnings = IF result.status = "WARN" THEN @ + 1 ELSE @]

\* lines 69-91: add_result, the verifier after the call
add_result(self, result) ==
    [self EXCEPT !.results = Append(@, result),
                 !.critical_failures = IF result.status = "FAIL" THEN @ + 1 ELSE @,
                 !.warnings = IF result.status # "FAIL" /\ result.status = "WARN"
                              THEN @ + 1 ELSE @]

\* lines 593-596: sum(1 for r in self.results if r.status == status)
CountStatus(results, status) ==
    Cardinality({i \in DOMAIN results : results[i].status = status})

RECURSIVE Recommended(_, _)
\* lines 618-621: the fix recommendations, from the i-th result on
Recommended(results, i) ==
    IF i > Len(results) THEN <<>>
    ELSE (IF results[i].status = "FAIL" /\ results[i].fix_command # ""
          THEN << "  " \o ToString(i) \o ". " \o results[i].name \o ":",
                  "     " \o results[i].fix_command >>
          ELSE <<>>)
         \o Recommended(results, i + 1)

\* lines 605-623: what print_summary returns
SummaryCode(failed, warnings) ==
    IF failed = 0 /\ warnings = 0 THEN 0
    ELSE IF failed = 0 THEN 0
    ELSE 1

\* lines 605-621: the verdict print_summary prints
Verdict(results, failed, warnings) ==
    IF failed = 0 /\ warnings = 0
    THEN <<"", MarkPass \o " INSTALLATION VERIFIED - READY FOR PRODUCTION">>
    ELSE IF failed = 0
    THEN <<"", MarkWarn \o " INSTALLATION COMPLETE WITH WARNINGS",
           "The system is functional but some optional features may not work.">>
    ELSE <<"", MarkFail \o " INSTALLATION INCOMPLETE",
           "Critical issues must be resolved before the system can be used.",
           "", "Recommended Actions:">> \o Recommended(results, 1)

\* lines 586-603: the counts print_summary prints
SummaryLines(results) ==
    << "", Rule, "VERIFICATION SUMMARY", Rule, "",
       "Total Checks:    " \o ToString(Len(results)),
       "Passed:          " \o ToString(CountStatus(results, "PASS")),
       "Warnings:        " \o ToString(CountStatus(results, "WARN")),
       "Failed:          " \o ToString(CountStatus(results, "FAIL")),
       "Skipped:         " \o ToString(CountStatus(results, "SKIP")) >>

\* lines 637-644: the checks of run_all_checks, in their order
Checks ==
    << "check_project_structure", "check_nodejs", "check_dependencies",
       "check_build", "check_database", "check_ollama", "check_configuration",
       "check_permissions" >>

---------------------------------------------------------------------------
(* The manifests the runs are checked on.                                  *)

\* A dict from its pairs, leaving out the pairs whose value is Absent
Absent == [t |-> "absent"]
DictOf(pairs) == Dict(SelectSeq(pairs, LAMBDA p : p[2] # Absent))

MaxFiles == 2      \* files in the directory
MaxDocs == 2       \* documents in a file
MaxLabels == 2     \* labels in a selector or a template
MaxPorts == 3      \* ports of a Service
MaxReplicas == 5   \* minReplicas and maxReplicas of an autoscaler

FileNames == {"a.yaml", "Z.yaml", "kustomization.yaml"}

Meta(name) == Dict(<< <<"name", Str(name)>> >>)

GoodContainer ==
    Dict(<< <<"name", Str("main")>>, <<"image", Str("web:1.0")>>,
            <<"resources", Dict(<< <<"limits", Dict(<< <<"cpu", Str("1")>> >>)>>,
                                   <<"requests", Dict(<< <<"cpu", Str("1")>> >>)>> >>)>>,
            <<"securityContext", Dict(<< <<"runAsNonRoot", Bool(TRUE)>>,
                                         <<"readOnlyRootFilesystem", Bool(TRUE)>> >>)>> >>)

PrivilegedContainer ==
    Dict(<< <<"name", Str("root")>>, <<"image", Str("web:1.0")>>,
            <<"resources", Dict(<< <<"limits", Dict(<< <<"cpu", Str("1")>> >>)>>,
                                   <<"requests", Dict(<< <<"cpu", Str("1")>> >>)>> >>)>>,
            <<"securityContext", Dict(<< <<"privileged", Bool(TRUE)>>,
                                         <<"runAsNonRoot", Bool(TRUE)>>,
                                         <<"readOnlyRootFilesystem", Bool(TRUE)>> >>)>> >>)

BareContainer == Dict(<< <<"image", Str("web")>> >>)

\* A container that says it may run as root
RootAllowedContainer ==
    Dict(<< <<"name", Str("legacy")>>, <<"image", Str("web:1.0")>>,
            <<"resources", Dict(<< <<"limits", Dict(<< <<"cpu", Str("1")>> >>)>>,
                                   <<"requests", Dict(<< <<"cpu", Str("1")>> >>)>> >>)>>,
            <<"securityContext", Dict(<< <<"runAsNonRoot", Bool(FALSE)>>,
                                         <<"readOnlyRootFilesystem", Bool(TRUE)>> >>)>> >>)

\* A Deployment or StatefulSet; match_labels, labels and containers may be Absent
Workload(kind, match_labels, labels, containers) ==
    Dict(<< <<"apiVersion", Str("apps/v1")>>, <<"kind", Str(kind)>>,
            <<"metadata", Meta("web")>>,
            <<"spec", DictOf(<<
                <<"selector", IF match_labels = Absent THEN Absent
                              ELSE Dict(<< <<"matchLabels", match_labels>> >>)>>,
                <<"template", Dict(<<
                    <<"metadata", DictOf(<< <<"labels", labels>> >>)>>,
                    <<"spec", DictOf(<< <<"containers", containers>> >>)>> >>)>> >>)>> >>)

AppLabel(v) == Dict(<< <<"app", Str(v)>> >>)

GoodDeployment ==
    Workload("Deployment", AppLabel("web"), AppLabel("web"), List(<<GoodContainer>>))

\* A Service; selector, cluster_ip and ports may be Absent
Service(selector, cluster_ip, ports) ==
    Dict(<< <<"apiVersion", Str("v1")>>, <<"kind", Str("Service")>>,
            <<"metadata", Meta("web")>>,
            <<"spec", DictOf(<< <<"selector", selector>>,
                                <<"clusterIP", cluster_ip>>,
                                <<"ports", ports>> >>)>> >>)

\* A port of a Service; name may be Absent
Port(name) == DictOf(<< <<"name", name>>, <<"port", Num(80)>> >>)

DupPortService ==
    Service(AppLabel("web"), Absent, List(<<Port(Str("http")), Port(Str("http"))>>))

\* A HorizontalPodAutoscaler; min and max may be Absent
Hpa(min, max) ==
    Dict(<< <<"apiVersion", Str("autoscaling/v2")>>,
            <<"kind", Str("HorizontalPodAutoscaler")>>,
            <<"metadata", Meta("web")>>,
            <<"spec", DictOf(<< <<"minReplicas", min>>, <<"maxReplicas", max>> >>)>> >>)

ConfigMapNoData ==
    Dict(<< <<"apiVersion", Str("v1")>>, <<"kind", Str("ConfigMap")>>,
            <<"metadata", Meta("cfg")>> >>)

\* A Service with neither metadata nor spec
BareService == Dict(<< <<"apiVersion", Str("v1")>>, <<"kind", Str("Service")>> >>)

\* A Deployment written with an empty spec: key (spec is None)
NullSpecDeployment ==
    Dict(<< <<"apiVersion", Str("apps/v1")>>, <<"kind", Str("Deployment")>>,
            <<"metadata", Meta("web")>>, <<"spec", None>> >>)

ParserMessage == "mapping values are not allowed here"

AppNames == <<"web", "db", "api", "cache", "queue", "auth", "mail", "cron">>

\* A document with the given metadata.labels
Labelled(labels) ==
    Dict(<< <<"apiVersion", Str("v1")>>, <<"kind", Str("ConfigMap")>>,
            <<"metadata", Dict(<< <<"name", Str("cfg")>>, <<"labels", labels>> >>)>> >>)

\* The documents labelled with the names from-th to to-th of AppNames
LabelledDocs(from, to) ==
    [k \in 1..(to - from + 1) |-> Labelled(AppLabel(AppNames[from + k - 1]))]

\* The file contents the runs of main() are checked on
ManifestContents ==
    { BadYaml(ParserMessage),
      Docs(<<>>),
      Docs(<<GoodDeployment>>),
      Docs(<<DupPortService>>),
      Docs(<<ConfigMapNoData>>),
      Docs(<<Hpa(Num(1), Num(3))>>),
      Docs(<<Hpa(Num(3), Num(3))>>),
      Docs(<<BareService, None>>),
      Docs(<<GoodDeployment, NullSpecDeployment>>),
      Docs(<<Str("just text")>>),
      Docs(LabelledDocs(1, 3)),
      Docs(LabelledDocs(4, 6)) }

\* The directories: at most MaxFiles of the names, each with a content
Directories ==
    UNION { [S -> ManifestContents] :
              S \in {T \in SUBSET FileNames : Cardinality(T) <= MaxFiles} }

NoCall == [fn |-> "none", file |-> "", arg |-> None]

---------------------------------------------------------------------------
(* main() of validate-k8s.py and of validate-k8s-advanced.py               *)

Init ==
    /\ validator \in {"baseline", "advanced"}
    /\ dir_exists \in BOOLEAN
    /\ dir \in Directories
    /\ (~dir_exists => dir = <<>>)
    /\ yaml_files = <<>>
    /\ pc = "start"
    /\ todo = <<>>
    /\ all_errors = <<>>
    /\ all_warnings = <<>>
    /\ out = <<>>
    /\ exit_code = -1
    /\ returned = <<>>
    /\ call = NoCall
    /\ ret = NoFindings
    /\ verifier = NoVerifier

\* lines 103-116 of validate-k8s.py, 255-268 of validate-k8s-advanced.py: the
\* file's block is printed and its findings are added to the run's
ReportFile(yaml_file, r) ==
    /\ out' = out \o FileBlock(yaml_file, r[1], r[2])
    /\ all_errors' = all_errors \o CountedErrors(r[1], r[2])
    /\ all_warnings' = all_warnings \o CountedWarnings(r[1], r[2])
    /\ returned' = Append(returned, <<yaml_file, r[1], r[2]>>)

\* lines 272-282 of validate-k8s-advanced.py: the findings of the label
\* check are added and printed
ReportLabels(r) ==
    /\ all_errors' = all_errors \o r[1]
    /\ all_warnings' = all_warnings \o r[2]
    /\ out' = out \o <<"", "Checking label consistency...">>
                  \o [i \in DOMAIN r[1] |-> "   ERROR: " \o r[1][i]]
                  \o (IF r[2] # <<>>
                      THEN [i \in DOMAIN r[2] |-> "   WARNING: " \o r[2][i]]
                      ELSE <<"   " \o MarkPass \o " Labels are consistent">>)
    /\ returned' = Append(returned, <<"", r[1], r[2]>>)

\* validate-k8s.py lines 85-100
BaselineStart ==
    /\ pc = "start" /\ validator = "baseline"
    /\ IF ~dir_exists
       THEN /\ out' = <<MarkFail \o " k8s directory not found">>
            /\ exit_code' = 1
            /\ pc' = "exit"
            /\ UNCHANGED <<yaml_files, todo>>
       ELSE \E listing \in Listings(DOMAIN dir) :
            /\ yaml_files' = listing
            /\ IF listing = <<>>
               THEN /\ out' = <<MarkFail \o " No YAML files found in k8s directory">>
                    /\ exit_code' = 1
                    /\ pc' = "exit"
                    /\ todo' = <<>>
               ELSE /\ out' = <<"Validating " \o ToString(Len(listing))
                                  \o " Kubernetes manifest files...", "">>
                    /\ todo' = Sorted(listing)
                    /\ pc' = "loop"
                    /\ UNCHANGED exit_code
    /\ UNCHANGED <<verifier, validator, dir_exists, dir, all_errors, all_warnings,
                   returned, call, ret>>

\* validate-k8s.py lines 102-116: one pass of the loop over the files
BaselineValidateFile ==
    /\ pc = "loop" /\ validator = "baseline" /\ todo # <<>>
    /\ ReportFile(Head(todo), validate_yaml_file(Head(todo), dir[Head(todo)]))
    /\ todo' = Tail(todo)
    /\ UNCHANGED <<verifier, validator, dir_exists, dir, yaml_files, pc, exit_code, call, ret>>

\* validate-k8s.py lines 118-132
BaselineSummary ==
    /\ pc = "loop" /\ validator = "baseline" /\ todo = <<>>
    /\ out' = out \o SummaryBlock(Len(yaml_files), all_errors, all_warnings)
                  \o << "",
                        IF all_errors # <<>>
                        THEN MarkFail \o " Validation FAILED with "
                               \o ToString(Len(all_errors)) \o " error(s)"
                        ELSE IF all_warnings # <<>>
                        THEN MarkWarn \o "  Validation passed with "
                               \o ToString(Len(all_warnings)) \o " warning(s)"
                        ELSE MarkPass \o " All manifests are valid!" >>
    /\ exit_code' = ExitCode(all_errors, all_warnings)
    /\ pc' = "exit"
    /\ UNCHANGED <<verifier, validator, dir_exists, dir, yaml_files, todo, all_errors,
                   all_warnings, returned, call, ret>>

\* validate-k8s-advanced.py lines 246-252
AdvancedStart ==
    /\ pc = "start" /\ validator = "advanced"
    /\ \E listing \in Listings(DOMAIN dir \ {"kustomization.yaml"}) :
        /\ yaml_files' = listing
        /\ todo' = Sorted(listing)
        /\ out' = <<"Running advanced validation on " \o ToString(Len(listing))
                      \o " manifest files...", "">>
    /\ pc' = "loop"
    /\ UNCHANGED <<verifier, validator, dir_exists, dir, all_errors, all_warnings,
                   exit_code, returned, call, ret>>

\* validate-k8s-advanced.py lines 254-268: one pass of the loop over the files
AdvancedValidateFile ==
    /\ pc = "loop" /\ validator = "advanced" /\ todo # <<>>
    /\ ReportFile(Head(todo), validate_advanced(Head(todo), dir[Head(todo)]))
    /\ todo' = Tail(todo)
    /\ UNCHANGED <<verifier, validator, dir_exists, dir, yaml_files, pc, exit_code, call, ret>>

\* validate-k8s-advanced.py lines 270-282
AdvancedCheckLabels ==
    /\ pc = "loop" /\ validator = "advanced" /\ todo = <<>>
    /\ \E listing \in Listings(DOMAIN dir) :
          ReportLabels(check_label_consistency(dir, listing))
    /\ pc' = "summary"
    /\ UNCHANGED <<verifier, validator, dir_exists, dir, yaml_files, todo, exit_code, call, ret>>

\* validate-k8s-advanced.py lines 284-299
AdvancedSummary ==
    /\ pc = "summary" /\ validator = "advanced"
    /\ out' = out \o SummaryBlock(Len(yaml_files), all_errors, all_warnings)
                  \o (IF all_errors # <<>>
                      THEN << "", MarkFail \o " Advanced validation FAILED with "
                                    \o ToString(Len(all_errors)) \o " error(s)" >>
                      ELSE IF all_warnings # <<>>
                      THEN << "", MarkWarn \o "  Advanced validation passed with "
                                    \o ToString(Len(all_warnings)) \o " warning(s)",
                              "   (Warnings are suggestions, not blockers)" >>
                      ELSE << "", MarkPass \o " All manifests pass advanced validation!" >>)
    /\ exit_code' = ExitCode(all_errors, all_warnings)
    /\ pc' = "exit"
    /\ UNCHANGED <<verifier, validator, dir_exists, dir, yaml_files, todo, all_errors,
                   all_warnings, returned, call, ret>>

Next ==
    \/ BaselineStart
    \/ BaselineValidateFile
    \/ BaselineSummary
    \/ AdvancedStart
    \/ AdvancedValidateFile
    \/ AdvancedCheckLabels
    \/ AdvancedSummary

Spec == Init /\ [][Next]_vars

\* The script is run a second time on the directory as it is: what the
\* first run printed and returned, and the listing it got, are kept in call
RunAgain ==
    /\ pc = "exit" /\ call.fn = "none"
    /\ call' = [fn |-> "main", file |-> "", arg |-> <<out, exit_code, yaml_files>>]
    /\ pc' = "start"
    /\ yaml_files' = <<>>
    /\ todo' = <<>>
    /\ all_errors' = <<>>
    /\ all_warnings' = <<>>
    /\ out' = <<>>
    /\ exit_code' = -1
    /\ returned' = <<>>
    /\ UNCHANGED <<verifier, validator, dir_exists, dir, ret>>

NextTwice == Next \/ RunAgain

SpecTwice == Init /\ [][NextTwice]_vars

---------------------------------------------------------------------------
(* Single calls of the validators, on inputs drawn from bounded sets.      *)

LabelKeys == {"app", "tier", "env"}
LabelValues == {"web", "db"}

\* The label mappings of at most MaxLabels keys, in every order of the keys
LabelMaps ==
    { Dict([i \in DOMAIN pairs |-> <<pairs[i][1], Str(pairs[i][2])>>]) :
        pairs \in { q \in UNION { [1..n -> LabelKeys \X LabelValues] : n \in 0..MaxLabels } :
                      \A i, j \in DOMAIN q : i # j => q[i][1] # q[j][1] } }

ContainerLists ==
    { List(<<GoodContainer>>), List(<<PrivilegedContainer, BareContainer>>),
      List(<<RootAllowedContainer, GoodContainer>>) }

WorkloadDocs ==
    { Workload(kind, match_labels, labels, containers) :
        kind \in {"Deployment", "StatefulSet"},
        match_labels \in LabelMaps \cup {Absent},
        labels \in LabelMaps \cup {Absent, None},
        containers \in ContainerLists }

PortNames == {Absent, Str(""), Str("http"), Str("https")}

PortLists ==
    { List([i \in DOMAIN names |-> Port(names[i])]) :
        names \in UNION { [1..n -> PortNames] : n \in 0..MaxPorts } }

ServiceDocs ==
    { Service(selector, cluster_ip, ports) :
        selector \in {Absent, AppLabel("web")},
        cluster_ip \in {Absent, Str("None")},
        ports \in PortLists \cup {Absent} }

Replicas == {Absent} \cup {Num(n) : n \in 0..MaxReplicas}

HpaDocs == { Hpa(min, max) : min \in Replicas, max \in Replicas }

BaselineKinds ==
    { "Deployment", "StatefulSet", "Service", "Secret", "ConfigMap", "Ingress",
      "Kustomization", "Pod" }

FullSpec ==
    Dict(<< <<"selector", AppLabel("web")>>, <<"template", EmptyDict>>,
            <<"ports", EmptyList>>, <<"rules", EmptyList>> >>)

\* Documents for the baseline check: every combination of the required
\* fields being there or not, for every kind
BaselineDocs ==
    { DictOf(<< <<"apiVersion", api_version>>, <<"kind", kind>>,
                <<"metadata", metadata>>, <<"spec", spec>> >>) :
        api_version \in {Absent, Str("v1")},
        kind \in {Absent} \cup {Str(k) : k \in BaselineKinds},
        metadata \in {Absent, EmptyDict, Meta("web"),
                      Dict(<< <<"labels", AppLabel("web")>> >>), None, Str("web")},
        spec \in {Absent, EmptyDict, FullSpec, None} }

\* Documents for files of several documents
SeveralDocs ==
    { None, Str("text"), GoodDeployment, DupPortService, ConfigMapNoData,
      Hpa(Num(3), Num(3)), NullSpecDeployment,
      Dict(<< <<"kind", Str("Pod")>>, <<"metadata", EmptyDict>>, <<"spec", None>> >>),
      Dict(<< <<"kind", Str("Deployment")>>, <<"metadata", Meta("web")>>,
              <<"spec", None>> >>),
      Dict(<< <<"metadata", Dict(<< <<"labels", AppLabel("web")>> >>)>> >>) }

DocLists == UNION { [1..n -> SeveralDocs] : n \in 0..MaxDocs }

\* A Secret; data and string_data may be Absent
Secret(data, string_data) ==
    DictOf(<< <<"apiVersion", Str("v1")>>, <<"kind", Str("Secret")>>,
              <<"metadata", Meta("creds")>>,
              <<"data", data>>, <<"stringData", string_data>> >>)

SecretValues == {Absent, Str("s3cret"), Str("CHANGE_ME"), Str("pw-CHANGE_ME-pw"), Str("")}

\* The mappings a Secret's data or stringData may be, of the keys PASSWORD
\* and TOKEN
SecretMaps ==
    { DictOf(<< <<"PASSWORD", password>>, <<"TOKEN", token>> >>) :
        password \in SecretValues, token \in SecretValues }

SecretDocs ==
    { Secret(data, string_data) :
        data \in SecretMaps \cup {Absent, None},
        string_data \in SecretMaps \cup {Absent, None} }

\* Services with and without a selector, headless or not
SelectorDocs ==
    { Service(selector, cluster_ip, ports) :
        selector \in {Absent, EmptyDict, AppLabel("web")},
        cluster_ip \in {Absent, Str("None"), Str("10.0.0.7"), None},
        ports \in {Absent, List(<<Port(Str("http"))>>)} }

FileCalls(fn) ==
    { [fn |-> fn, file |-> "a.yaml", arg |-> Docs(docs)] : docs \in DocLists }
    \cup { [fn |-> fn, file |-> "a.yaml", arg |-> c] :
             c \in {BadYaml(ParserMessage), Unreadable("Permission denied")} }

DocCalls(fn, docs) == { [fn |-> fn, file |-> "a.yaml", arg |-> d] : d \in docs }

\* Files in which an empty document stands between two others
GapCalls(fn) ==
    { [fn |-> fn, file |-> "a.yaml", arg |-> Docs(<<d1, None, d2>>)] :
        d1 \in SeveralDocs \ {None}, d2 \in SeveralDocs \ {None} }

Calls ==
    FileCalls("validate_yaml_file")
    \cup { [fn |-> "validate_yaml_file", file |-> f, arg |-> Docs(<<d>>)] :
             f \in {"a.yaml", "kustomization.yaml"}, d \in BaselineDocs }
    \cup FileCalls("validate_advanced")
    \cup GapCalls("validate_yaml_file")
    \cup GapCalls("validate_advanced")
    \cup DocCalls("validate_deployment", WorkloadDocs)
    \cup DocCalls("validate_service", ServiceDocs)
    \cup DocCalls("validate_hpa", HpaDocs)
    \cup DocCalls("validate_secret", SecretDocs)
    \cup DocCalls("validate_service", SelectorDocs)
    \cup { [fn |-> "validate_yaml_file", file |-> "a.yaml", arg |-> Docs(<<d>>)] :
             d \in SecretDocs \cup SelectorDocs }

\* <<errors, warnings>> as the findings of a call that returned
Returned(r) == [raised |-> FALSE, exc |-> "", errors |-> r[1], warnings |-> r[2]]

InitCalls ==
    /\ validator = "none"
    /\ dir_exists = FALSE
    /\ dir = <<>>
    /\ yaml_files = <<>>
    /\ pc = "call"
    /\ todo = <<>>
    /\ all_errors = <<>>
    /\ all_warnings = <<>>
    /\ out = <<>>
    /\ exit_code = -1
    /\ returned = <<>>
    /\ call \in Calls
    /\ ret = NoFindings
    /\ verifier = NoVerifier

\* The call is made and returns ret
Return(r) ==
    /\ ret' = r
    /\ pc' = "returned"
    /\ UNCHANGED <<verifier, validator, dir_exists, dir, yaml_files, todo, all_errors,
                   all_warnings, out, exit_code, returned, call>>

CallValidateYamlFile ==
    /\ pc = "call" /\ call.fn = "validate_yaml_file"
    /\ Return(Returned(validate_yaml_file(call.file, call.arg)))

CallValidateAdvanced ==
    /\ pc = "call" /\ call.fn = "validate_advanced"
    /\ Return(Returned(validate_advanced(call.file, call.arg)))

CallValidateDeployment ==
    /\ pc = "call" /\ call.fn = "validate_deployment"
    /\ Return(validate_deployment(call.arg, call.file))

CallValidateService ==
    /\ pc = "call" /\ call.fn = "validate_service"
    /\ Return(validate_service(call.arg, call.file))

CallValidateHpa ==
    /\ pc = "call" /\ call.fn = "validate_hpa"
    /\ Return(validate_hpa(call.arg, call.file))

CallValidateSecret ==
    /\ pc = "call" /\ call.fn = "validate_secret"
    /\ Return(validate_secret(call.arg, call.file))

NextCalls ==
    \/ CallValidateSecret
    \/ CallValidateYamlFile
    \/ CallValidateAdvanced
    \/ CallValidateDeployment
    \/ CallValidateService
    \/ CallValidateHpa

SpecCalls == InitCalls /\ [][NextCalls]_vars

---------------------------------------------------------------------------
(* Properties of a run of main(), checked under Spec.                      *)

\* The run has produced an Error (a Warning) finding: a validation of the
\* loop, or the label check, returned one
ErrorsProduced == \E i \in DOMAIN returned : returned[i][2] # <<>>
WarningsProduced == \E i \in DOMAIN returned : returned[i][3] # <<>>

\* The baseline validator found no directory or no *.yaml file in it
InputMissing == validator = "baseline" /\ (~dir_exists \/ DOMAIN dir = {})

\* C1 as stated: a run of either validator, over any set of manifest files,
\* exits with code 1 if and only if an Error finding was produced in the run.
C1_AsStated == pc = "exit" => (exit_code = 1 <=> ErrorsProduced)

\* C1, amended: a run that gets to validate files exits with code 1 if an
\* Error finding was produced in the run and with code 0 otherwise, whatever
\* Warnings there were; the baseline validator also exits with code 1, with
\* no finding at all, when the directory is missing or holds no *.yaml file.
C1_ExitCodeIffErrors ==
    pc = "exit" =>
        /\ exit_code \in {0, 1}
        /\ ~InputMissing => (exit_code = 1 <=> ErrorsProduced)
        /\ InputMissing => exit_code = 1 /\ returned = <<>>

\* A run over two files, one with an Error and one with Warnings only, has
\* exited with code 1 ...
C1_Witness ==
    /\ pc = "exit" /\ exit_code = 1 /\ ~InputMissing
    /\ \E i, j \in DOMAIN returned :
        /\ returned[i][2] # <<>>
        /\ returned[j][2] = <<>> /\ returned[j][3] # <<>>

\* C2: each validator exits with code 1 when the directory k8s is missing or
\* holds no .yaml manifest to validate.
C2_MissingInputExitsOne ==
    pc = "exit" /\ (~dir_exists \/ yaml_files = <<>>) => exit_code = 1

\* C3: a file that cannot be parsed as YAML gets exactly one Error, naming
\* the file, and nothing else; the run goes on, so that at the end every
\* listed file has been validated once and has its block in the report.
C3_ParseErrorIsOneFinding ==
    /\ \A i \in DOMAIN returned :
        LET name == returned[i][1] IN
        (name # "" /\ dir[name].kind = "bad_yaml") =>
            /\ Len(returned[i][2]) = 1
            /\ StrIn(PathOf(name), returned[i][2][1])
            /\ StrIn(dir[name].msg, returned[i][2][1])
            /\ returned[i][3] = <<>>
            /\ (MarkFail \o " " \o name \o ":") \in Range(out)
    /\ pc = "exit" /\ ~InputMissing =>
        \A name \in Range(yaml_files) :
            /\ Cardinality({i \in DOMAIN returned : returned[i][1] = name}) = 1
            /\ \E mark \in {MarkFail \o " ", MarkWarn \o "  ", MarkPass \o " "} :
                \E tail \in {"", ":"} : (mark \o name \o tail) \in Range(out)

\* A run has ended in which the first file did not parse and a later file
\* was validated and had findings of its own
C3_Witness ==
    /\ pc = "exit"
    /\ Len(returned) >= 2
    /\ returned[1][1] # "" /\ dir[returned[1][1]].kind = "bad_yaml"
    /\ returned[2][1] # "" /\ dir[returned[2][1]].kind = "docs"
    /\ returned[2][2] # <<>>

---------------------------------------------------------------------------
(* Properties of single calls, checked under SpecCalls.                    *)

\* A call of a file validator on a file that parsed has returned
FileReturned(fn) == pc = "returned" /\ call.fn = fn /\ call.arg.kind = "docs"

\* A call of a kind validator has returned
DocReturned(fn) == pc = "returned" /\ call.fn = fn

\* The kinds validate_advanced has a validator for
RegisteredKinds ==
    { "Deployment", "StatefulSet", "Service", "Ingress", "Secret",
      "HorizontalPodAutoscaler", "NetworkPolicy" }

\* A document whose kind is none of the registered ones (or is not given)
UnknownKind(doc) ==
    /\ IsDict(doc)
    /\ \A k \in RegisteredKinds : Get(doc, "kind", Str("")) # Str(k)

\* C4: in the advanced validator a document of a kind that is not registered
\* produces no finding, whatever its other fields are, and the file's result
\* is the one the file has without such documents.
C4_UnknownKindNoFindings ==
    FileReturned("validate_advanced") =>
        /\ (\A i \in DOMAIN call.arg.docs : UnknownKind(call.arg.docs[i]))
              => ret.errors = <<>> /\ ret.warnings = <<>>
        /\ ret = Returned(validate_advanced(call.file,
                    Docs(SelectSeq(call.arg.docs, LAMBDA d : ~UnknownKind(d)))))

\* A file of a Pod with an empty spec: key and a Service with a port name
\* collision has been validated; the one Error is the Service's
C4_Witness ==
    /\ FileReturned("validate_advanced")
    /\ Len(call.arg.docs) = 2
    /\ UnknownKind(call.arg.docs[1]) /\ Get(call.arg.docs[1], "spec", Absent) = None
    /\ call.arg.docs[2] = DupPortService
    /\ Len(ret.errors) = 1 /\ StrIn("Duplicate port name", ret.errors[1])

\* The errors about document i (counted from 0) that contain text
ErrorsAbout(errors, i, text) ==
    { j \in DOMAIN errors :
        StrIn("Document " \o ToString(i) \o " in ", errors[j]) /\ StrIn(text, errors[j]) }

\* metadata is a mapping without a name
NamelessMetadata(doc) ==
    /\ "metadata" \in Keys(doc)
    /\ IsDict(Lookup(doc, "metadata"))
    /\ "name" \notin Keys(Lookup(doc, "metadata"))

\* The baseline loop gets to docs[i] and checks it: no earlier document
\* raised, the document is a mapping and is not Kustomize configuration
BaselineChecks(docs, i, name) ==
    /\ IsDict(docs[i])
    /\ name # "kustomization.yaml"
    /\ Get(docs[i], "kind", Str("")) # Str("Kustomization")
    /\ ~BaselineLoop(NoFindings, SubSeq(docs, 1, i - 1), 1, name).raised

RequiredFields == {"apiVersion", "kind", "metadata"}

KindOf(doc) == Get(doc, "kind", Absent)
MatchLabelsOf(doc) ==
    Get(Get(Get(doc, "spec", EmptyDict), "selector", EmptyDict), "matchLabels", Absent)
TemplateLabelsOf(doc) ==
    Get(Get(Get(Get(doc, "spec", EmptyDict), "template", EmptyDict),
            "metadata", EmptyDict), "labels", Absent)

\* The selector Errors among errors, in their order
SelectorErrs(errors) == SelectSeq(errors, LAMBDA e : StrIn("Selector label", e))

\* C7 as stated: a Deployment with matchLabels {app: x} and template labels
\* {app: y}, x # y, gets exactly one Error, whose message names x and y.
C7_AsStated ==
    DocReturned("validate_deployment") =>
        \A x, y \in LabelValues :
            (/\ KindOf(call.arg) = Str("Deployment")
             /\ x # y
             /\ MatchLabelsOf(call.arg) = AppLabel(x)
             /\ TemplateLabelsOf(call.arg) = AppLabel(y))
                => /\ Len(ret.errors) = 1
                   /\ StrIn(x, ret.errors[1])
                   /\ StrIn(y, ret.errors[1])

\* C7, amended: such a Deployment gets exactly one selector Error; its
\* message names the key and the selector's value x, and not the template's
\* value y.  The Errors beside it are those of privileged containers.
C7_OneSelectorError ==
    DocReturned("validate_deployment") =>
        \A x, y \in LabelValues :
            (/\ KindOf(call.arg) = Str("Deployment")
             /\ x # y
             /\ MatchLabelsOf(call.arg) = AppLabel(x)
             /\ TemplateLabelsOf(call.arg) = AppLabel(y))
                => /\ ~ret.raised
                   /\ Len(SelectorErrs(ret.errors)) = 1
                   /\ StrIn("app=" \o x, SelectorErrs(ret.errors)[1])
                   /\ ~StrIn(y, SelectorErrs(ret.errors)[1])
                   /\ \A j \in DOMAIN ret.errors :
                        \/ StrIn("Selector label", ret.errors[j])
                        \/ StrIn("runs as privileged", ret.errors[j])

\* A Deployment selecting app=web over a template labelled app=db, with no
\* privileged container, has been validated: one Error
C7_Witness ==
    /\ DocReturned("validate_deployment")
    /\ KindOf(call.arg) = Str("Deployment")
    /\ MatchLabelsOf(call.arg) = AppLabel("web")
    /\ TemplateLabelsOf(call.arg) = AppLabel("db")
    /\ ret.errors = <<"a.yaml: Selector label app=web doesn't match template label">>

\* The keys of the selector whose value the template's labels lack or have
\* different; a template with no labels lacks every key
DisagreeingKeys(doc) ==
    LET selector == MatchLabelsOf(doc)
        labels == IF IsDict(TemplateLabelsOf(doc)) THEN TemplateLabelsOf(doc)
                  ELSE EmptyDict
    IN  IF ~IsDict(selector) THEN {}
        ELSE { k \in Keys(selector) :
                 k \notin Keys(labels) \/ Lookup(labels, k) # Lookup(selector, k) }

\* C8: a Deployment or StatefulSet gets one selector Error for each key of
\* matchLabels whose value is absent from or different in the template's
\* labels, also when the template has no labels at all, and none when every
\* key agrees.
C8_ErrorPerDisagreeingKey ==
    DocReturned("validate_deployment") =>
        /\ ~ret.raised
        /\ Len(SelectorErrs(ret.errors)) = Cardinality(DisagreeingKeys(call.arg))
        /\ \A k \in DisagreeingKeys(call.arg) :
             \E j \in DOMAIN ret.errors :
                StrIn("Selector label " \o k \o "=", ret.errors[j])

\* The names of the ports of a Service, None for a port without a name
PortsOf(doc) == Get(Get(doc, "spec", EmptyDict), "ports", EmptyList).v
PortNameAt(doc, k) == Get(PortsOf(doc)[k], "name", None)

\* The ports whose name has occurred earlier in the list
RepeatedPorts(doc) ==
    { k \in DOMAIN PortsOf(doc) :
        /\ Truthy(PortNameAt(doc, k))
        /\ \E j \in 1..(k - 1) : PortNameAt(doc, j) = PortNameAt(doc, k) }

DuplicateMessage(file, name) == file \o ": Duplicate port name '" \o name \o "'"

\* C9: a Service gets exactly one duplicate-name Error for each port whose
\* name has occurred earlier in spec.ports, so n ports of one name give n-1
\* Errors, and none when the named ports are pairwise distinct.  (A port
\* without a name, or with an empty one, is not a named port.)
C9_DuplicatePortNames ==
    DocReturned("validate_service") =>
        /\ ~ret.raised
        /\ Len(ret.errors) = Cardinality(RepeatedPorts(call.arg))
        /\ \A name \in {"http", "https"} :
             LET sharing == { k \in DOMAIN PortsOf(call.arg) :
                                 PortNameAt(call.arg, k) = Str(name) }
                 errors == { j \in DOMAIN ret.errors :
                                 ret.errors[j] = DuplicateMessage(call.file, name) }
             IN  Cardinality(errors) =
                    IF sharing = {} THEN 0 ELSE Cardinality(sharing) - 1

\* A Service with the ports http, https, http has been validated: the third
\* port gives the one Error
C9_Witness ==
    /\ DocReturned("validate_service")
    /\ Len(PortsOf(call.arg)) = 3
    /\ PortNameAt(call.arg, 1) = Str("http")
    /\ PortNameAt(call.arg, 2) = Str("https")
    /\ PortNameAt(call.arg, 3) = Str("http")
    /\ ret.errors = <<DuplicateMessage("a.yaml", "http")>>

\* minReplicas and maxReplicas as validate_hpa is to count them: 1 when unset
ReplicasSet(doc, key) == Get(Get(doc, "spec", EmptyDict), key, Absent)
ReplicasCounted(doc, key) ==
    IF ReplicasSet(doc, key) = Absent THEN 1 ELSE ReplicasSet(doc, key).v

\* C10: an autoscaler gets exactly one Error when minReplicas >= maxReplicas
\* and none otherwise, an unset value counting as 1; so with both unset it
\* gets the Error, and with 3 and 5 it gets no Error and no Warning.
C10_HpaReplicas ==
    DocReturned("validate_hpa") =>
        LET min == ReplicasCounted(call.arg, "minReplicas")
            max == ReplicasCounted(call.arg, "maxReplicas")
        IN  /\ ~ret.raised
            /\ Len(ret.errors) = IF min >= max THEN 1 ELSE 0
            /\ (min = 3 /\ max = 5) => ret.errors = <<>> /\ ret.warnings = <<>>

\* An autoscaler with neither value set has been validated and has the Error
C10_Witness ==
    /\ DocReturned("validate_hpa")
    /\ ReplicasSet(call.arg, "minReplicas") = Absent
    /\ ReplicasSet(call.arg, "maxReplicas") = Absent
    /\ ret.errors = <<"a.yaml: minReplicas (1) >= maxReplicas (1)">>

---------------------------------------------------------------------------
(* Single calls of check_label_consistency, on directories whose documents *)
(* carry app labels.                                                       *)

MaxApps == 6       \* different app labels in a directory

\* What a.yaml may hold beside its labelled documents: a document with an
\* empty app label, or one written with an empty labels: key, before or
\* after the others
Extras == {"none", "empty_app", "null_labels_first", "null_labels_last"}

\* A directory of a.yaml with the first i names, Z.yaml with the names up to
\* the j-th (and the first name again when shared), kustomization.yaml with
\* the names up to the n-th; the file named broken does not parse
LabelDirectory(i, j, n, shared, broken, extra) ==
    [name \in FileNames |->
        IF name = broken THEN BadYaml(ParserMessage)
        ELSE IF name = "a.yaml"
        THEN Docs((IF extra = "empty_app" THEN <<Labelled(AppLabel(""))>>
                   ELSE IF extra = "null_labels_first" THEN <<Labelled(None)>>
                   ELSE <<>>)
                  \o LabelledDocs(1, i)
                  \o (IF extra = "null_labels_last" THEN <<Labelled(None)>> ELSE <<>>))
        ELSE IF name = "Z.yaml"
        THEN Docs((IF shared THEN <<Labelled(AppLabel(AppNames[1]))>> ELSE <<>>)
                  \o LabelledDocs(i + 1, j))
        ELSE Docs(LabelledDocs(j + 1, n))]

LabelDirectories ==
    { LabelDirectory(i, j, n, shared, broken, extra) :
        i \in 0..MaxApps, j \in 0..MaxApps, n \in 0..MaxApps,
        shared \in BOOLEAN, broken \in {"", "a.yaml", "Z.yaml"}, extra \in Extras }

\* The call is about to be made on a directory, which glob will list in the
\* order yaml_files
InitLabels ==
    /\ validator = "none"
    /\ dir_exists = TRUE
    /\ dir \in LabelDirectories
    /\ yaml_files \in Listings(FileNames)
    /\ pc = "call"
    /\ todo = <<>>
    /\ all_errors = <<>>
    /\ all_warnings = <<>>
    /\ out = <<>>
    /\ exit_code = -1
    /\ returned = <<>>
    /\ call = [fn |-> "check_label_consistency", file |-> "", arg |-> None]
    /\ ret = NoFindings
    /\ verifier = NoVerifier

\* check_label_consistency() is called and returns
CallCheckLabelConsistency ==
    /\ pc = "call" /\ call.fn = "check_label_consistency"
    /\ Return(Returned(check_label_consistency(dir, yaml_files)))

NextLabels == CallCheckLabelConsistency

SpecLabels == InitLabels /\ [][NextLabels]_vars

---------------------------------------------------------------------------
(* Properties of check_label_consistency, checked under SpecLabels.        *)

LabelsReturned == pc = "returned" /\ call.fn = "check_label_consistency"

\* metadata.labels of a document, and whether it gives an app label
LabelsOf(doc) == Get(Get(doc, "metadata", EmptyDict), "labels", EmptyDict)
HasApp(doc) == IsDict(LabelsOf(doc)) /\ "app" \in Keys(LabelsOf(doc))

\* The documents of the files that take part: not kustomization.yaml
LabelFiles(files) == DOMAIN files \ {"kustomization.yaml"}

\* The app labels of all documents of all files
DistinctApps(files) ==
    UNION { { Lookup(LabelsOf(files[name].docs[k]), "app") :
                k \in {k \in DOMAIN files[name].docs : HasApp(files[name].docs[k])} } :
            name \in LabelFiles(files) }

\* The documents of a file the scan gets to: those up to the first one whose
\* labels are not a mapping
Scanned(docs) ==
    { k \in DOMAIN docs : \A j \in 1..k : IsDict(LabelsOf(docs[j])) }

\* The non-empty app labels of the documents scanned
CountedApps(files) ==
    UNION { { Lookup(LabelsOf(files[name].docs[k]), "app") :
                k \in {k \in Scanned(files[name].docs) :
                          /\ HasApp(files[name].docs[k])
                          /\ Lookup(LabelsOf(files[name].docs[k]), "app") # Str("")} } :
            name \in LabelFiles(files) }

\* One warning citing n when n is greater than 5, and none otherwise
WarnsAbove5(n, warnings) ==
    IF n > 5
    THEN Len(warnings) = 1 /\ StrIn("Found " \o ToString(n) \o " ", warnings[1])
    ELSE warnings = <<>>

\* C11 as stated: check_label_consistency gives exactly one Warning, citing
\* the count, when the number of distinct metadata.labels.app values over all
\* documents of all files but kustomization.yaml is greater than 5, and none
\* when it is 5 or less.
C11_AsStated ==
    LabelsReturned => WarnsAbove5(Cardinality(DistinctApps(dir)), ret.warnings)

\* C11, amended: the values counted are the non-empty app labels of the
\* documents scanned, a file's scan ending at its first document whose
\* metadata or labels is not a mapping.  When these are more than 5 there is
\* exactly one Warning, citing their number, and none when they are 5 or
\* fewer; the result is a function of that set alone, whatever the spread of
\* the values over the files and the order of the listing.
C11_LabelSprawlWarning ==
    LabelsReturned => WarnsAbove5(Cardinality(CountedApps(dir)), ret.warnings)

\* Six labels, three in a.yaml and three in Z.yaml which repeats the first,
\* scanned with Z.yaml before a.yaml: the Warning cites 6
C11_Witness ==
    /\ LabelsReturned
    /\ dir = LabelDirectory(3, 6, 6, TRUE, "", "none")
    /\ yaml_files = <<"kustomization.yaml", "Z.yaml", "a.yaml">>
    /\ ret.warnings = <<"Found 6 different 'app' labels. Consider standardization.">>

\* The files that parse, and the listing without the others
Parsed(files) == [name \in {n \in DOMAIN files : files[n].kind = "docs"} |-> files[name]]
ParsedOf(files, listing) == SelectSeq(listing, LAMBDA n : files[n].kind = "docs")

\* C20: check_label_consistency reports no Error and does not raise; a file
\* that fails to parse adds no label and does not stop the scan: the result
\* is that of the directory without such files.
C20_UnparsedFilesSkipped ==
    LabelsReturned =>
        /\ ~ret.raised
        /\ ret.errors = <<>>
        /\ ret = Returned(check_label_consistency(Parsed(dir), ParsedOf(dir, yaml_files)))

\* The first file of the listing does not parse and the six labels of the
\* file after it are counted
C20_Witness ==
    /\ LabelsReturned
    /\ dir[yaml_files[1]].kind = "bad_yaml"
    /\ yaml_files[2] # "kustomization.yaml"
    /\ Len(dir[yaml_files[2]].docs) = 6
    /\ ret.errors = <<>> /\ Len(ret.warnings) = 1

---------------------------------------------------------------------------
(* Properties of the Secret and Service rules, checked under SpecCalls.    *)

\* The findings among msgs that contain text
Containing(msgs, text) == { j \in DOMAIN msgs : StrIn(text, msgs[j]) }

\* A baseline call on a file of one document of the kind has returned; the
\* file is one of those kind rules are applied to, and the document's
\* metadata and spec are mappings or absent, so that its kind rule is reached
BaselineReturnedFor(kind) ==
    /\ FileReturned("validate_yaml_file")
    /\ call.file # "kustomization.yaml"
    /\ Len(call.arg.docs) = 1
    /\ IsDict(call.arg.docs[1])
    /\ KindOf(call.arg.docs[1]) = Str(kind)
    /\ IsDict(Get(call.arg.docs[1], "metadata", EmptyDict))
    /\ IsDict(Get(call.arg.docs[1], "spec", EmptyDict))

\* d.get(key) is None: the key is absent or written without a value
IsUnset(doc, key) == Get(doc, key, None) = None

\* C12: in the baseline validator a Secret gets the 'no data or stringData'
\* Error if and only if data and stringData are both absent (None); a Secret
\* in which one of them is present, be it an empty mapping, gets no such Error.
C12_SecretWithoutData ==
    BaselineReturnedFor("Secret") =>
        Cardinality(Containing(ret.errors, "Secret has no data or stringData"))
            = IF IsUnset(call.arg.docs[1], "data") /\ IsUnset(call.arg.docs[1], "stringData")
              THEN 1 ELSE 0

\* A Secret with data: {} and no stringData has been validated by the
\* baseline and has no Error
C12_Witness ==
    /\ BaselineReturnedFor("Secret")
    /\ Get(call.arg.docs[1], "data", Absent) = EmptyDict
    /\ Get(call.arg.docs[1], "stringData", Absent) = Absent
    /\ ret.errors = <<>>

SecretKeys == {"PASSWORD", "TOKEN"}

\* The mapping under key, empty when it is absent or not a mapping
MappingAt(doc, key) ==
    IF IsDict(Get(doc, key, EmptyDict)) THEN Get(doc, key, EmptyDict) ELSE EmptyDict

\* The entry k of the mapping has a value containing CHANGE_ME
Placeholder(mapping, k) ==
    k \in Keys(mapping) /\ StrIn("CHANGE_ME", Lookup(mapping, k).v)

\* The Warnings about the placeholder of key k
PlaceholderWarnings(warnings, k) ==
    Containing(warnings, "Secret '" \o k \o "' contains CHANGE_ME placeholder")

ServiceValidated ==
    IF DocReturned("validate_service") THEN call.arg ELSE call.arg.docs[1]

\* spec.clusterIP is the string None
Headless(doc) == Get(Get(doc, "spec", EmptyDict), "clusterIP", Absent) = Str("None")

\* C18: a Service without spec.selector gets a missing-selector Warning
\* unless spec.clusterIP is exactly "None", and a headless Service never gets
\* it, in the advanced validator and in the baseline validator alike.
C18_HeadlessExempt ==
    (DocReturned("validate_service") \/ BaselineReturnedFor("Service")) =>
        /\ ("selector" \notin Keys(Get(ServiceValidated, "spec", EmptyDict))
               /\ ~Headless(ServiceValidated))
              => Containing(ret.warnings, "selector") # {}
        /\ Headless(ServiceValidated) => Containing(ret.warnings, "selector") = {}

---------------------------------------------------------------------------
(* Properties of two runs on one directory, checked under SpecTwice.       *)

\* C14: a second run of a validator on the unchanged directory prints the
\* same report as the first, line for line (the blocks of the files, their
\* finding lines, the summary), and exits with the same code, whatever order
\* the directory is listed in each time.
C14_SameReportTwice ==
    (pc = "exit" /\ call.fn = "main") =>
        /\ out = call.arg[1]
        /\ exit_code = call.arg[2]

\* Both runs have ended; the directory of two files was listed in different
\* orders, and the report has the block of a failed file
C14_Witness ==
    /\ pc = "exit" /\ call.fn = "main"
    /\ Len(yaml_files) = 2
    /\ call.arg[3] # yaml_files
    /\ \E i \in DOMAIN out : StrIn(MarkFail, out[i])
    /\ out = call.arg[1]

---------------------------------------------------------------------------
(* Properties of the report of a run, checked under Spec.                  *)

\* The first line of the block of a file: failed, with warnings, or passed
BlockHeaders(name) ==
    { MarkFail \o " " \o name \o ":", MarkWarn \o "  " \o name \o ":",
      MarkPass \o " " \o name }

\* The lines of out that open the block of the file
BlocksOf(name) == { i \in DOMAIN out : out[i] \in BlockHeaders(name) }

\* The file names in lexicographic order: capitals come before small letters
Lexicographic == <<"Z.yaml", "a.yaml", "kustomization.yaml">>
Rank(name) == CHOOSE i \in DOMAIN Lexicographic : Lexicographic[i] = name

\* C15: the blocks of the files appear in the report in lexicographic order
\* of file name, whatever the order of the listing, and each validated file
\* has exactly one block.
C15_BlocksInNameOrder ==
    /\ \A a, b \in FileNames : \A i \in BlocksOf(a) : \A j \in BlocksOf(b) :
          i < j => Rank(a) < Rank(b)
    /\ pc = "exit" =>
          \A i \in DOMAIN yaml_files : Cardinality(BlocksOf(yaml_files[i])) = 1

\* A run that was given a.yaml before Z.yaml has ended, and the block of
\* Z.yaml is above that of a.yaml
C15_Witness ==
    /\ pc = "exit"
    /\ yaml_files = <<"a.yaml", "Z.yaml">>
    /\ \E i \in BlocksOf("Z.yaml") : \E j \in BlocksOf("a.yaml") : i < j

RECURSIVE TotalOf(_, _)
\* The number of findings in column col (2: errors, 3: warnings) of the
\* results rets
TotalOf(rets, col) ==
    IF rets = <<>> THEN 0 ELSE Len(Head(rets)[col]) + TotalOf(Tail(rets), col)

\* The run has ended having printed its summary
SummaryPrinted == pc = "exit" /\ \E i \in DOMAIN out : out[i] = "Summary:"

\* C16: the summary gives as Errors the number of Error findings and as
\* Warnings the number of Warning findings that the validations of the files
\* and the label check returned in the run, also when a file has both.
C16_SummaryTotals ==
    SummaryPrinted =>
        /\ \E i \in DOMAIN out :
              out[i] = "  Errors: " \o ToString(TotalOf(returned, 2))
        /\ \E i \in DOMAIN out :
              out[i] = "  Warnings: " \o ToString(TotalOf(returned, 3))

\* The findings that are about a file as a whole: it cannot be read or
\* parsed, it has no document, or validating it raised
FileLevel(msg) ==
    \/ StrIn("YAML parsing error in ", msg)
    \/ StrIn("Error reading ", msg)
    \/ StrIn("No documents found in ", msg)

\* The directory without kustomization.yaml
Manifests(files) == [name \in DOMAIN files \ {"kustomization.yaml"} |-> files[name]]

\* C19: kustomization.yaml is left out of the validation of kinds.  The
\* advanced validator does not validate it or print a block for it; in the
\* baseline validator its documents give no finding of the required-field
\* or kind rules, whatever they are (what it can get is an Error about the
\* file as a whole); and the label check returns what it returns for the
\* directory without the file.
C19_KustomizationExcluded ==
    /\ validator = "advanced" =>
          /\ BlocksOf("kustomization.yaml") = {}
          /\ \A i \in DOMAIN returned : returned[i][1] # "kustomization.yaml"
    /\ \A i \in DOMAIN returned :
          /\ returned[i][1] = "kustomization.yaml" =>
                /\ returned[i][3] = <<>>
                /\ \A j \in DOMAIN returned[i][2] : FileLevel(returned[i][2][j])
                /\ (/\ dir["kustomization.yaml"].kind = "docs"
                    /\ dir["kustomization.yaml"].docs # <<>>
                    /\ \A k \in DOMAIN dir["kustomization.yaml"].docs :
                          \/ dir["kustomization.yaml"].docs[k] = None
                          \/ IsDict(dir["kustomization.yaml"].docs[k]))
                      => returned[i][2] = <<>>
          /\ returned[i][1] = "" =>
                \A listing \in Listings(DOMAIN Manifests(dir)) :
                    <<returned[i][2], returned[i][3]>>
                        = check_label_consistency(Manifests(dir), listing)

\* The baseline has validated a kustomization.yaml that holds a Service
\* with neither metadata nor spec, and returned no finding for it
C19_Witness ==
    /\ validator = "baseline"
    /\ "kustomization.yaml" \in DOMAIN dir
    /\ dir["kustomization.yaml"] = Docs(<<BareService, None>>)
    /\ \E i \in DOMAIN returned :
          returned[i] = <<"kustomization.yaml", <<>>, <<>> >>

---------------------------------------------------------------------------
(* Runs of the advanced validator on directories of three files.           *)

EndToEndNames == {"api.yaml", "db.yaml", "web.yaml"}

\* What each of the three files may hold: a Deployment without findings, a
\* Service with a port name used twice, a resource of a kind that has no
\* validator, an autoscaler with an Error, or text that does not parse
EndToEndContents ==
    { Docs(<<GoodDeployment>>), Docs(<<DupPortService>>), Docs(<<ConfigMapNoData>>),
      Docs(<<Hpa(Num(3), Num(3))>>), BadYaml(ParserMessage) }

InitEndToEnd ==
    /\ validator = "advanced"
    /\ dir_exists = TRUE
    /\ dir \in [EndToEndNames -> EndToEndContents]
    /\ yaml_files = <<>>
    /\ pc = "start"
    /\ todo = <<>>
    /\ all_errors = <<>>
    /\ all_warnings = <<>>
    /\ out = <<>>
    /\ exit_code = -1
    /\ returned = <<>>
    /\ call = NoCall
    /\ ret = NoFindings
    /\ verifier = NoVerifier

NextEndToEnd ==
    \/ AdvancedStart
    \/ AdvancedValidateFile
    \/ AdvancedCheckLabels
    \/ AdvancedSummary

SpecEndToEnd == InitEndToEnd /\ [][NextEndToEnd]_vars

\* The report shows the file as passed: its one block is the pass line
ShownPassed(name) ==
    /\ Cardinality(BlocksOf(name)) = 1
    /\ \A i \in BlocksOf(name) : out[i] = MarkPass \o " " \o name

\* The report shows the file as failed with the one Error msg: its one block
\* is the fail line, the Error line, and no further Error line
ShownFailedWith(name, msg) ==
    /\ Cardinality(BlocksOf(name)) = 1
    /\ \A i \in BlocksOf(name) :
          /\ out[i] = MarkFail \o " " \o name \o ":"
          /\ out[i + 1] = "   ERROR: " \o msg
          /\ ~StrIn("ERROR: ", out[i + 2])

\* C17: in a run of the advanced validator over three files, a file holding
\* a Deployment without findings is shown as passed, a file holding a Service
\* with one port name collision is shown as failed with exactly one Error, a
\* file holding a resource of unknown kind is shown as passed, whatever the
\* other files hold; with such a Service the exit code is 1, and with one
\* file of each of the three the summary counts one Error and no Warning.
C17_EndToEnd ==
    pc = "exit" =>
        /\ \A name \in DOMAIN dir :
              /\ dir[name] \in {Docs(<<GoodDeployment>>), Docs(<<ConfigMapNoData>>)}
                    => ShownPassed(name)
              /\ dir[name] = Docs(<<DupPortService>>) =>
                    /\ ShownFailedWith(name, name \o ": Duplicate port name 'http'")
                    /\ exit_code = 1
        /\ {dir[name] : name \in DOMAIN dir}
              = {Docs(<<GoodDeployment>>), Docs(<<DupPortService>>), Docs(<<ConfigMapNoData>>)}
              => /\ \E i \in DOMAIN out : out[i] = "  Errors: 1"
                 /\ \E i \in DOMAIN out : out[i] = "  Warnings: 0"
                 /\ exit_code = 1

\* The run over a Deployment in api.yaml, the Service in db.yaml and a
\* ConfigMap in web.yaml has ended with exit code 1
C17_Witness ==
    /\ pc = "exit"
    /\ dir["api.yaml"] = Docs(<<GoodDeployment>>)
    /\ dir["db.yaml"] = Docs(<<DupPortService>>)
    /\ dir["web.yaml"] = Docs(<<ConfigMapNoData>>)
    /\ ShownPassed("api.yaml") /\ ShownPassed("web.yaml")
    /\ ShownFailedWith("db.yaml", "db.yaml: Duplicate port name 'http'")
    /\ exit_code = 1

---------------------------------------------------------------------------
(* Properties of the kind validators called on documents whose optional    *)
(* fields are there, missing or null, checked under SpecCalls.             *)

KindValidators ==
    {"validate_deployment", "validate_service", "validate_hpa", "validate_secret"}

\* C21: no kind validator raises for a document whose optional fields are
\* missing or None; it returns its findings normally.
C21_ValidatorsNeverRaise ==
    pc = "returned" /\ call.fn \in KindValidators => ~ret.raised

---------------------------------------------------------------------------
(* Properties of the aggregated lists of a run of main(), checked under    *)
(* Spec.                                                                   *)

\* The findings the checks of the run have emitted as Errors (col = 2) or as
\* Warnings (col = 3)
EmittedAs(col) == UNION { Range(returned[i][col]) : i \in DOMAIN returned }

IsPrefix(s, t) == Len(s) <= Len(t) /\ SubSeq(t, 1, Len(s)) = s

\* C22: severity is fixed at detection. At every point of a run every finding
\* in all_errors was emitted as an Error and every finding in all_warnings as
\* a Warning by the check that produced it, no finding is in both lists, and
\* a step only adds to the end of the lists, so no finding leaves its list
\* for the other.
C22_SeverityFixed ==
    /\ [](/\ Range(all_errors) \subseteq EmittedAs(2)
          /\ Range(all_warnings) \subseteq EmittedAs(3)
          /\ Range(all_errors) \cap EmittedAs(3) = {}
          /\ Range(all_warnings) \cap EmittedAs(2) = {}
          /\ Range(all_errors) \cap Range(all_warnings) = {})
    /\ [][IsPrefix(all_errors, all_errors') /\ IsPrefix(all_warnings, all_warnings')]_vars

\* A run has ended with findings in both lists, one file having given
\* Errors and a later one Warnings
C22_Witness ==
    /\ pc = "exit"
    /\ all_errors # <<>> /\ all_warnings # <<>>
    /\ \E i, j \in DOMAIN returned :
        i < j /\ returned[i][2] # <<>> /\ returned[j][2] = <<>> /\ returned[j][3] # <<>>

---------------------------------------------------------------------------
(* Properties of the baseline rule for workloads, checked under SpecCalls. *)

\* The baseline result for the one workload document of the call has the
\* Error for every one of selector and template its spec does not have
WorkloadErrors(kind) ==
    BaselineReturnedFor(kind) =>
        LET spec == Get(call.arg.docs[1], "spec", EmptyDict) IN
        \A field \in {"selector", "template"} :
            field \notin Keys(spec) =>
                Containing(ret.errors, "missing 'spec." \o field \o "'") # {}

\* C23: in the baseline validator a Deployment or StatefulSet whose spec has
\* no selector gets an Error, and one whose spec has no template gets an
\* Error (both Errors when both are absent).
C23_WorkloadNeedsSelectorAndTemplate ==
    WorkloadErrors("Deployment") /\ WorkloadErrors("StatefulSet")

\* The half of it that is about Deployments
DeploymentNeedsSelectorAndTemplate == WorkloadErrors("Deployment")

---------------------------------------------------------------------------
(* Properties of the listing of the Errors of a run, checked under Spec.   *)

StartsWith(s, prefix) == Len(s) >= Len(prefix) /\ SubSeq(s, 1, Len(prefix)) = prefix

\* The places in the output of the lines that list an Error
ErrorLines == { k \in DOMAIN out : StartsWith(out[k], "   ERROR: ") }

\* C24: in every run that reaches the summary, each Error counted in the
\* summary has been printed on a line of its own before the summary block;
\* no Error is counted without having been listed. At every point of the run
\* every counted Error has its line and there are as many such lines as
\* counted Errors; in the end this number is the one the summary gives, and
\* all the lines are above the summary.
C24_ErrorsListedBeforeSummary ==
    /\ \A i \in DOMAIN all_errors : \E k \in ErrorLines : out[k] = "   ERROR: " \o all_errors[i]
    /\ Cardinality(ErrorLines) = Len(all_errors)
    /\ SummaryPrinted =>
        \E s \in DOMAIN out :
            /\ out[s] = "Summary:"
            /\ out[s + 2] = "  Errors: " \o ToString(Len(all_errors))
            /\ \A k \in ErrorLines : k < s

\* A run has printed its summary after two files that had Errors, one of
\* them more than one
C24_Witness ==
    /\ SummaryPrinted
    /\ Len(all_errors) >= 3
    /\ \E i, j \in DOMAIN returned :
        i # j /\ Len(returned[i][2]) >= 2 /\ returned[j][2] # <<>>

---------------------------------------------------------------------------
(* Properties of the container checks of validate_deployment, checked      *)
(* under SpecCalls.                                                        *)

\* The containers of a workload's pod template
ContainersOf(doc) ==
    Get(Get(Get(Get(doc, "spec", EmptyDict), "template", EmptyDict),
            "spec", EmptyDict), "containers", EmptyList).v

\* The runAsNonRoot Warning for the container
RunAsNonRootWarning(container) ==
    "Container '" \o PyStr(Get(container, "name", Str("unnamed")))
        \o "' doesn't explicitly set runAsNonRoot"

\* C25: for every container of a Deployment or StatefulSet, validate_deployment
\* gives the runAsNonRoot Warning exactly when the container's securityContext
\* does not have the key runAsNonRoot; a container that sets the key, to
\* whatever value, gets no such Warning.
C25_RunAsNonRootWhenUnset ==
    DocReturned("validate_deployment") /\ ~ret.raised =>
        \A k \in DOMAIN ContainersOf(call.arg) :
            LET container == ContainersOf(call.arg)[k] IN
            Containing(ret.warnings, RunAsNonRootWarning(container)) # {}
                <=> "runAsNonRoot" \notin Keys(Get(container, "securityContext", EmptyDict))

---------------------------------------------------------------------------
(* Properties of the file validators on files with empty documents,        *)
(* checked under SpecCalls.                                                *)

FileValidators == {"validate_yaml_file", "validate_advanced"}

\* What the file validator fn returns for the content
Validate(fn, name, content) ==
    IF fn = "validate_yaml_file" THEN validate_yaml_file(name, content)
    ELSE validate_advanced(name, content)

\* A complete resource of a kind neither validator has a rule for: it gets
\* no finding
QuietDoc ==
    Dict(<< <<"apiVersion", Str("v1")>>, <<"kind", Str("Pod")>>,
            <<"metadata", Meta("web")>> >>)

\* The documents with every empty one replaced by QuietDoc
Filled(docs) == [k \in DOMAIN docs |-> IF docs[k] = None THEN QuietDoc ELSE docs[k]]

NoFinding(r) == ~r.raised /\ r.errors = <<>> /\ r.warnings = <<>>

\* A file validator has returned for a file that parsed
AnyFileReturned ==
    pc = "returned" /\ call.fn \in FileValidators /\ call.arg.kind = "docs"

\* C26 as stated: empty documents are skipped silently. A source made only
\* of empty documents, a completely empty file included, produces no finding,
\* and an empty document between two resources neither produces a finding
\* nor stops the documents after it from being validated: the result is that
\* of the file with a finding-free resource in place of each empty document.
C26_AsStated ==
    AnyFileReturned =>
        /\ (\A k \in DOMAIN call.arg.docs : call.arg.docs[k] = None) => NoFinding(ret)
        /\ call.arg.docs # <<>> =>
              ret = Returned(Validate(call.fn, call.file, Docs(Filled(call.arg.docs))))

\* C26, amended: as stated for every file that holds at least one document,
\* empty or not, and for the completely empty file in validate_advanced; for
\* the completely empty file validate_yaml_file returns the one Error
\* 'No documents found in <path>'.
C26_EmptyDocumentsSkipped ==
    AnyFileReturned =>
        /\ call.arg.docs # <<>> =>
            /\ (\A k \in DOMAIN call.arg.docs : call.arg.docs[k] = None) => NoFinding(ret)
            /\ ret = Returned(Validate(call.fn, call.file, Docs(Filled(call.arg.docs))))
        /\ call.arg.docs = <<>> /\ call.fn = "validate_advanced" => NoFinding(ret)
        /\ call.arg.docs = <<>> /\ call.fn = "validate_yaml_file" =>
            /\ ret.errors = <<"No documents found in " \o PathOf(call.file)>>
            /\ ret.warnings = <<>>

\* validate_advanced has returned for a file in which an empty document
\* stands between two resources that both have findings
C26_Witness ==
    /\ AnyFileReturned /\ call.fn = "validate_advanced"
    /\ Len(call.arg.docs) = 3
    /\ call.arg.docs[2] = None
    /\ ~NoFinding(Returned(validate_advanced(call.file, Docs(<<call.arg.docs[1]>>))))
    /\ ~NoFinding(Returned(validate_advanced(call.file, Docs(<<call.arg.docs[3]>>))))
    /\ Len(ret.errors) + Len(ret.warnings) >= 2

---------------------------------------------------------------------------
(* Properties of the file validators on files in which validating a        *)
(* document raises, checked under SpecCalls.                               *)

\* The findings the loop of the file validator fn has collected over docs,
\* and whether it was left by an exception
Loop(fn, docs, name) ==
    IF fn = "validate_yaml_file" THEN BaselineLoop(NoFindings, docs, 1, name)
    ELSE AdvancedLoop(NoFindings, docs, 1, name)

\* Validating the k-th document of the call's file raises, and none before
\* it does
RaisingAt(k) ==
    /\ k \in DOMAIN call.arg.docs
    /\ Loop(call.fn, SubSeq(call.arg.docs, 1, k), call.file).raised
    /\ ~Loop(call.fn, SubSeq(call.arg.docs, 1, k - 1), call.file).raised

\* The findings of documents 1..k-1 of the call's file
Before(k) == Loop(call.fn, SubSeq(call.arg.docs, 1, k - 1), call.file)

\* The findings the baseline loop has added for document k by the time it
\* raises; a kind validator of validate_advanced that raises returns nothing
PartialOf(k) ==
    IF call.fn = "validate_yaml_file"
    THEN BaselineDoc(NoFindings, k - 1, call.arg.docs[k], call.file)
    ELSE NoFindings

\* The Error the except clause adds for the call's file
FileError(msg) ==
    \/ /\ call.fn = "validate_yaml_file"
       /\ StartsWith(msg, "Error reading " \o PathOf(call.file) \o ": ")
    \/ /\ call.fn = "validate_advanced"
       /\ StartsWith(msg, "Error validating " \o PathOf(call.file) \o ": ")

\* The call returned the findings of before, then those of partial, then one
\* Error for the file
ResultIs(before, partial) ==
    /\ ~ret.raised
    /\ ret.warnings = before.warnings \o partial.warnings
    /\ Len(ret.errors) = Len(before.errors) + Len(partial.errors) + 1
    /\ SubSeq(ret.errors, 1, Len(ret.errors) - 1) = before.errors \o partial.errors
    /\ FileError(ret.errors[Len(ret.errors)])

\* Nothing after document k has a part in the result
NothingAfter(k) ==
    ret = Returned(Validate(call.fn, call.file, Docs(SubSeq(call.arg.docs, 1, k))))

\* C27 as stated: in validate_advanced and validate_yaml_file, when validating
\* the k-th document of a file raises, the result holds every finding of
\* documents 1..k-1 plus exactly one additional Error for the file, no
\* document after the k-th is validated, and the exception does not reach the
\* caller.
C27_AsStated ==
    AnyFileReturned =>
        \A k \in DOMAIN call.arg.docs :
            RaisingAt(k) => ResultIs(Before(k), NoFindings) /\ NothingAfter(k)

\* C27, amended: as stated for validate_advanced; the result of
\* validate_yaml_file holds, between the findings of documents 1..k-1 and the
\* one Error for the file, the findings the k-th document had got before it
\* raised.
C27_FindingsKeptUpToException ==
    AnyFileReturned =>
        \A k \in DOMAIN call.arg.docs :
            RaisingAt(k) => ResultIs(Before(k), PartialOf(k)) /\ NothingAfter(k)

\* validate_yaml_file has returned for a file whose first document has
\* findings and whose last document got a finding and then raised
C27_Witness ==
    /\ AnyFileReturned /\ call.fn = "validate_yaml_file"
    /\ \E k \in DOMAIN call.arg.docs :
        /\ k > 1 /\ RaisingAt(k)
        /\ ~NoFinding(Before(k))
        /\ PartialOf(k).errors # <<>>
    /\ Len(ret.errors) >= 3

---------------------------------------------------------------------------
(* A run of verify_install.py: run_all_checks().  What a check finds       *)
(* depends on the machine; a check is taken as the add_result calls it     *)
(* makes and the way it ends, by returning or by raising.                  *)

MaxResults == 3

\* Results as the checks record them, of every status, with and without
\* details and fix command
CheckResults ==
    { CheckResult("npm", "PASS", "Version 10.2.4", "", ""),
      CheckResult("Environment config", "WARN", "Missing: .env",
                  "Optional file not found", ""),
      CheckResult("Node.js", "FAIL", "Not found", "",
                  "Install Node.js from https://nodejs.org/"),
      CheckResult("package.json", "FAIL", "Missing: package.json",
                  "File does not exist", ""),
      CheckResult("Ollama", "SKIP", "Not checked", "", "") }

InitVerifier ==
    /\ validator = "none"
    /\ dir_exists = FALSE
    /\ dir = <<>>
    /\ yaml_files = <<>>
    /\ pc = "start"
    /\ todo = <<>>
    /\ all_errors = <<>>
    /\ all_warnings = <<>>
    /\ out = <<>>
    /\ exit_code = -1
    /\ returned = <<>>
    /\ call = NoCall
    /\ ret = NoFindings
    /\ verifier \in { InstallationVerifier(verbose) : verbose \in BOOLEAN }

\* lines 631-634: the heading of run_all_checks
RunAllChecksStart ==
    /\ pc = "start"
    /\ out' = << "ALCS Installation Verification", "Project Root: .",
                 "Verbose: " \o (IF verifier.verbose THEN "True" ELSE "False"),
                 "Auto-fix: False", "" >>
    /\ todo' = Checks
    /\ pc' = "checks"
    /\ UNCHANGED <<verifier, validator, dir_exists, dir, yaml_files, all_errors,
                   all_warnings, exit_code, returned, call, ret>>

\* lines 69-91: the check that is running calls add_result
CheckAddsResult ==
    /\ pc = "checks" /\ todo # <<>>
    /\ Len(verifier.results) < MaxResults
    /\ \E result \in CheckResults :
        /\ verifier' = add_result(verifier, result)
        /\ out' = out \o ResultLines(verifier, result)
    /\ UNCHANGED <<validator, dir_exists, dir, yaml_files, pc, todo, all_errors,
                   all_warnings, exit_code, returned, call, ret>>

\* lines 637-644: the check that is running returns, the next one starts
CheckReturns ==
    /\ pc = "checks" /\ todo # <<>>
    /\ todo' = Tail(todo)
    /\ UNCHANGED <<verifier, validator, dir_exists, dir, yaml_files, pc, all_errors,
                   all_warnings, out, exit_code, returned, call, ret>>

\* lines 651-656: the check that is running raises an Exception
CheckRaises ==
    /\ pc = "checks" /\ todo # <<>>
    /\ \E msg \in {"invalid literal for int() with base 10: 'x'"} :
        out' = out \o <<"", "Verification failed with error: " \o msg>>
    /\ exit_code' = 1
    /\ pc' = "exit"
    /\ UNCHANGED <<verifier, validator, dir_exists, dir, yaml_files, todo, all_errors,
                   all_warnings, returned, call, ret>>

\* lines 648-650: the run is interrupted from the keyboard
Interrupt ==
    /\ pc = "checks"
    /\ out' = out \o <<"", "Verification interrupted by user">>
    /\ exit_code' = 130
    /\ pc' = "exit"
    /\ UNCHANGED <<verifier, validator, dir_exists, dir, yaml_files, todo, all_errors,
                   all_warnings, returned, call, ret>>

\* lines 646 and 586-623: every check has returned; print_summary
PrintSummary ==
    /\ pc = "checks" /\ todo = <<>>
    /\ out' = out \o SummaryLines(verifier.results)
                  \o Verdict(verifier.results, CountStatus(verifier.results, "FAIL"),
                             CountStatus(verifier.results, "WARN"))
    /\ exit_code' = SummaryCode(CountStatus(verifier.results, "FAIL"),
                                CountStatus(verifier.results, "WARN"))
    /\ pc' = "exit"
    /\ UNCHANGED <<verifier, validator, dir_exists, dir, yaml_files, todo, all_errors,
                   all_warnings, returned, call, ret>>

NextVerifier ==
    \/ RunAllChecksStart
    \/ CheckAddsResult
    \/ CheckReturns
    \/ CheckRaises
    \/ Interrupt
    \/ PrintSummary

SpecVerifier == InitVerifier /\ [][NextVerifier]_vars

---------------------------------------------------------------------------
(* Properties of the installation verifier, checked under SpecVerifier.    *)

\* A check has raised an Exception in the run
CheckRaised ==
    \E i \in DOMAIN out : StartsWith(out[i], "Verification failed with error: ")

\* The run was interrupted from the keyboard
Interrupted == "Verification interrupted by user" \in Range(out)

Recorded(status) == CountStatus(verifier.results, status)

\* The counters are the numbers of FAIL and of WARN results recorded
CountersAgree ==
    /\ verifier.critical_failures = Recorded("FAIL")
    /\ verifier.warnings = Recorded("WARN")

\* C28 as stated: after any sequence of add_result calls critical_failures
\* is the number of recorded FAIL results and warnings the number of WARN
\* results, and run_all_checks returns 1 if and only if a recorded result is
\* FAIL or a check raised an exception; WARN and SKIP results alone always
\* give 0.
C28_AsStated ==
    /\ CountersAgree
    /\ pc = "exit" =>
        /\ exit_code = 1 <=> (Recorded("FAIL") >= 1 \/ CheckRaised)
        /\ Recorded("FAIL") = 0 /\ ~CheckRaised => exit_code = 0

\* C28, amended: the counters are as stated; a run of run_all_checks that is
\* not interrupted from the keyboard returns 1 if a recorded result is FAIL
\* or a check raised an exception and 0 otherwise, whatever WARN and SKIP
\* results there are; an interrupted run returns 130 whatever was recorded.
C28_CountersAndReturnCode ==
    /\ CountersAgree
    /\ pc = "exit" /\ ~Interrupted =>
        /\ exit_code \in {0, 1}
        /\ exit_code = 1 <=> (Recorded("FAIL") >= 1 \/ CheckRaised)
    /\ pc = "exit" /\ Interrupted => exit_code = 130

\* A run has printed its summary and returned 0 with a WARN and a SKIP
\* result recorded and both counted
C28_Witness ==
    /\ pc = "exit" /\ exit_code = 0
    /\ "VERIFICATION SUMMARY" \in Range(out)
    /\ Recorded("WARN") >= 1 /\ Recorded("SKIP") >= 1
    /\ verifier.warnings >= 1 /\ verifier.critical_failures = 0

====
